---- MODULE Spec2Model ----
(***************************************************************************)
(* Model of the Q&A extraction pipeline of visualize-qa.js: the two-pass   *)
(* correlator extractQAPairs and the fallback answer parser                *)
(* parseAnswersFromContent.                                                *)
(*                                                                         *)
(* JavaScript strings are modelled as sequences of one-character strings,  *)
(* JavaScript objects used as maps (answers, toolUseMap) as functions,     *)
(* arrays as sequences.  Array positions keep the 0-based numbering of the *)
(* source (lineIndex), so parsedLines[i] of the source is                  *)
(* parsedLines[i + 1] here.                                                *)
(***************************************************************************)
EXTENDS Integers, Sequences, FiniteSets, TLC

VARIABLES
  parsedLines,  \* extractQAPairs, buildSessionTimeline: the parsed records of one session file
  toolUseMap,   \* extractQAPairs: id -> { questions, lineIndex, timestamp, toolUseId }
  pairs,        \* extractQAPairs: the pairs pushed so far
  i,            \* extractQAPairs, buildSessionTimeline: the loop variable of the running pass
  contentStr,   \* parseAnswersFromContent: the fallback content
  questions,    \* parseAnswersFromContent: the known questions
  qi,           \* parseAnswersFromContent: number of questions already handled
  answers,      \* parseAnswersFromContent: the mapping built so far
  timeline,     \* buildSessionTimeline: the entries pushed so far
  toolBlock,    \* summarizeToolInput: the tool_use block
  snippet,      \* summarizeToolInput: the summary returned
  allSessions,  \* buildViewModel: the sessions of all files
  withQA,       \* buildViewModel: the sessions with at least one pair
  grouped,      \* buildViewModel: project label -> sessions
  totals,       \* buildViewModel: totalSessions, totalProjects, qaSessionCount, totalQA
  fileLines,    \* parseJSONLFile: the lines of the file, content.split('\n')
  keptLines,    \* parseJSONLFile: lines, the lines kept by the filter
  sessionFiles, \* main: the files discovered
  fileIdx,      \* main: number of files the loop is done with
  notices,      \* main: what console.error and console.warn have reported
  report,       \* main: whether the report was written
  firstRun,     \* the view model of an earlier run on the same files
  currentFilter,   \* client: 'all' or 'qa'
  html,            \* renderTimeline: the items rendered so far
  renderedQAIds,   \* renderTimeline: the ids whose card is rendered
  mapping,      \* the answers a fallback text was written from
  pc            \* position of the running function

correlatorVars == <<toolUseMap, pairs>>
parserVars == <<contentStr, questions, qi, answers>>
timelineVars == <<timeline>>
summaryVars == <<toolBlock, snippet>>
viewVars == <<allSessions, withQA, grouped, totals>>
readerVars == <<fileLines, keptLines>>
mainVars == <<sessionFiles, fileIdx, notices, report, firstRun>>
renderVars == <<currentFilter, html, renderedQAIds>>
roundTripVars == <<mapping>>

vars == <<parsedLines, toolUseMap, pairs, i, contentStr, questions, qi, answers,
          timelineVars, summaryVars, viewVars, readerVars, mainVars, renderVars,
          roundTripVars, pc>>

----------------------------------------------------------------------------
(* Bounds *)

\* longest record sequence handed to extractQAPairs
MaxLines == 3

----------------------------------------------------------------------------
(* Strings *)

DQ == "\""

\* a JavaScript value that may or may not be a string
Str(s) == [isString |-> TRUE, chars |-> s]
NotAString == [isString |-> FALSE, chars |-> <<>>]

\* s.substring(from, to) for 0 <= from <= to <= s.length
Substring(s, from, to) == SubSeq(s, from + 1, to)

\* does pat occur in s at 0-based position p
OccursAt(s, pat, p) ==
  /\ p >= 0
  /\ p + Len(pat) <= Len(s)
  /\ \A j \in 1..Len(pat) : s[p + j] = pat[j]

\* s.indexOf(pat, from): the first position >= from where pat occurs, else -1
IndexOfFrom(s, pat, from) ==
  LET hits == {p \in from..Len(s) : OccursAt(s, pat, p)}
  IN  IF hits = {} THEN -1 ELSE CHOOSE p \in hits : \A r \in hits : p <= r

\* s.indexOf(pat)
IndexOf(s, pat) == IndexOfFrom(s, pat, 0)

\* s.lastIndexOf(pat): the last position where pat occurs, else -1
LastIndexOf(s, pat) ==
  LET hits == {p \in 0..Len(s) : OccursAt(s, pat, p)}
  IN  IF hits = {} THEN -1 ELSE CHOOSE p \in hits : \A r \in hits : p >= r

\* a JavaScript object used as a map, initially {}
EmptyMap == [x \in {} |-> <<>>]

\* obj[key] = value
Put(obj, key, value) == (key :> value) @@ obj

----------------------------------------------------------------------------
(* parseAnswersFromContent: the fallback answer parser *)

\* the delimiter `", "` between two answers
Delimiter == <<DQ, ",", " ", DQ>>

\* pattern = `"${qText}"="`
Pattern(qText) == <<DQ>> \o qText \o <<DQ, "=", DQ>>

\* the end of the answer that starts at start: the next delimiter, else the
\* last quotation mark, else (when that mark is not after start) the length
AnswerEnd(s, start) ==
  LET delim == IndexOfFrom(s, Delimiter, start)
      last  == LastIndexOf(s, <<DQ>>)
  IN  IF delim # -1 THEN delim
      ELSE IF last <= start THEN Len(s)
      ELSE last

\* an iteration that stores an empty answer for a question it does not find
ParseQuestion_EmptyWhenMissing(acc, s, q) ==
  LET qText   == q.question
      pattern == Pattern(qText)
      idx     == IndexOf(s, pattern)
      start   == idx + Len(pattern)
  IN  IF idx = -1 THEN Put(acc, qText, <<>>)
      ELSE Put(acc, qText, Substring(s, start, AnswerEnd(s, start)))

\* one iteration of the loop over the questions
ParseQuestion(acc, s, q) ==
  LET qText   == q.question
      pattern == Pattern(qText)
      idx     == IndexOf(s, pattern)
      start   == idx + Len(pattern)
  IN  IF idx = -1 THEN acc
      ELSE Put(acc, qText, Substring(s, start, AnswerEnd(s, start)))

RECURSIVE ParseQuestions(_, _, _)
ParseQuestions(acc, s, qs) ==
  IF qs = <<>> THEN acc
  ELSE ParseQuestions(ParseQuestion(acc, s, Head(qs)), s, Tail(qs))

\* the function as a whole, as extractQAPairs calls it
parseAnswersFromContent(c, qs) ==
  IF ~c.isString THEN EmptyMap ELSE ParseQuestions(EmptyMap, c.chars, qs)

\* if (typeof contentStr !== 'string') return answers;
ParseNotAString ==
  /\ pc = "parse"
  /\ ~contentStr.isString
  /\ pc' = "parsed"
  /\ UNCHANGED <<parsedLines, toolUseMap, pairs, i, contentStr, questions, qi, answers, timelineVars, summaryVars, viewVars, readerVars, mainVars, renderVars, roundTripVars>>

\* for (const q of questions) { ... }: one iteration
ParseStep ==
  /\ pc = "parse"
  /\ contentStr.isString
  /\ qi < Len(questions)
  /\ answers' = ParseQuestion(answers, contentStr.chars, questions[qi + 1])
  /\ qi' = qi + 1
  /\ UNCHANGED <<parsedLines, toolUseMap, pairs, i, contentStr, questions, pc, timelineVars, summaryVars, viewVars, readerVars, mainVars, renderVars, roundTripVars>>

\* return answers;
ParseReturn ==
  /\ pc = "parse"
  /\ contentStr.isString
  /\ qi = Len(questions)
  /\ pc' = "parsed"
  /\ UNCHANGED <<parsedLines, toolUseMap, pairs, i, contentStr, questions, qi, answers, timelineVars, summaryVars, viewVars, readerVars, mainVars, renderVars, roundTripVars>>

----------------------------------------------------------------------------
(* The records of a session file, as JSON.parse returns them *)

\* timestamp is undefined
NoTimestamp == ""

\* the question objects of an AskUserQuestion request ({ header, question, options })
Question(text) == [question |-> text]

\* the question text "Proceed?"
Proceed == <<"P", "r", "o", "c", "e", "e", "d", "?">>

QuestionA == Question(Proceed)
QuestionB == Question(<<"b">>)

\* block.input of a tool_use block: the argument fields summarizeToolInput reads
\* (<<>>: the field is missing or empty) and one argument it does not know
ToolInput(command, file_path, pattern, query, url, content, description) ==
  [present |-> TRUE, command |-> command, file_path |-> file_path, pattern |-> pattern,
   query |-> query, url |-> url, content |-> content, description |-> description]

\* block.input is undefined
NoInput ==
  [present |-> FALSE, command |-> <<>>, file_path |-> <<>>, pattern |-> <<>>,
   query |-> <<>>, url |-> <<>>, content |-> <<>>, description |-> <<>>]

\* content blocks; a field a block does not have is "" / FALSE / <<>> / NotAString / NoInput
AskBlock(id, qs) ==
  [type |-> "tool_use", name |-> "AskUserQuestion", id |-> id, questions |-> qs,
   tool_use_id |-> "", is_error |-> FALSE, content |-> NotAString, text |-> <<>>,
   input |-> NoInput]

ToolUseBlock(name, id) ==
  [type |-> "tool_use", name |-> name, id |-> id, questions |-> <<>>,
   tool_use_id |-> "", is_error |-> FALSE, content |-> NotAString, text |-> <<>>,
   input |-> NoInput]

ResultBlock(id, err, c) ==
  [type |-> "tool_result", name |-> "", id |-> "", questions |-> <<>>,
   tool_use_id |-> id, is_error |-> err, content |-> c, text |-> <<>>,
   input |-> NoInput]

TextBlock(t) ==
  [type |-> "text", name |-> "", id |-> "", questions |-> <<>>,
   tool_use_id |-> "", is_error |-> FALSE, content |-> NotAString, text |-> t,
   input |-> NoInput]

\* message.content: an array of blocks, a plain string, or missing
ArrayContent(blocks) == [kind |-> "array", blocks |-> blocks, text |-> <<>>]
StringContent(t) == [kind |-> "string", blocks |-> <<>>, text |-> t]
NoContent == [kind |-> "missing", blocks |-> <<>>, text |-> <<>>]

\* toolUseResult: missing, present without answers, or { answers: {...} }
NoToolUseResult == [kind |-> "missing", answers |-> EmptyMap]
ToolUseResultOther == [kind |-> "other", answers |-> EmptyMap]
ToolUseResult(a) == [kind |-> "answers", answers |-> a]

Record(type, ts, c, tur) ==
  [type |-> type, timestamp |-> ts, content |-> c, toolUseResult |-> tur]

\* the fallback text `"Proceed?"="No", "b"="y"` of a response block
FallbackText ==
  Str(<<DQ>> \o Proceed \o <<DQ, "=", DQ, "N", "o", DQ, ",", " ", DQ, "b", DQ, "=", DQ, "y", DQ>>)

\* a structured answer mapping that differs from what FallbackText holds
StructuredAnswers == (Proceed :> <<"Y", "e", "s">>)

AssistantRecords ==
  { Record("assistant", "t1", ArrayContent(<<AskBlock("X", <<QuestionA>>)>>), NoToolUseResult),
    Record("assistant", "t2", ArrayContent(<<AskBlock("X", <<QuestionB>>)>>), NoToolUseResult),
    Record("assistant", "t2", ArrayContent(<<AskBlock("Y", <<QuestionA, QuestionB>>)>>), NoToolUseResult),
    Record("assistant", "t3", ArrayContent(<<AskBlock("X", <<QuestionA>>),
                                             AskBlock("Y", <<QuestionB>>)>>), NoToolUseResult),
    Record("assistant", "t3", ArrayContent(<<AskBlock("X", <<QuestionA>>),
                                             AskBlock("X", <<>>)>>), NoToolUseResult),
    Record("assistant", NoTimestamp, ArrayContent(<<AskBlock("X", <<QuestionA>>)>>), NoToolUseResult),
    Record("assistant", "t1", ArrayContent(<<TextBlock(<<"h", "i", "!">>),
                                             ToolUseBlock("Bash", "X")>>), NoToolUseResult),
    Record("assistant", "t1", ArrayContent(<<ResultBlock("X", FALSE, FallbackText)>>), NoToolUseResult),
    Record("assistant", "t1", StringContent(<<"o", "k">>), NoToolUseResult) }

UserRecords ==
  { Record("user", "t4", ArrayContent(<<ResultBlock("X", FALSE, FallbackText)>>), NoToolUseResult),
    Record("user", "t5", ArrayContent(<<ResultBlock("X", FALSE, FallbackText)>>),
           ToolUseResult(StructuredAnswers)),
    Record("user", "t5", ArrayContent(<<ResultBlock("X", TRUE, FallbackText)>>),
           ToolUseResult(StructuredAnswers)),
    Record("user", "t4", ArrayContent(<<ResultBlock("Y", FALSE, NotAString)>>), NoToolUseResult),
    Record("user", "t6", ArrayContent(<<ResultBlock("X", TRUE, FallbackText),
                                        ResultBlock("Y", FALSE, FallbackText)>>),
           ToolUseResult(StructuredAnswers)),
    Record("user", "t6", ArrayContent(<<ResultBlock("Y", FALSE, FallbackText),
                                        ResultBlock("X", FALSE, FallbackText)>>), ToolUseResultOther),
    Record("user", NoTimestamp, ArrayContent(<<ResultBlock("X", FALSE, FallbackText)>>), NoToolUseResult),
    Record("user", "t4", ArrayContent(<<AskBlock("X", <<QuestionB>>)>>), NoToolUseResult),
    Record("user", "t4", StringContent(<<"g", "o">>), NoToolUseResult) }

OtherRecords ==
  { Record("system", "t1", NoContent, NoToolUseResult) }

Records == AssistantRecords \cup UserRecords \cup OtherRecords

\* the record sequences extractQAPairs is run on
RecordSequences == UNION {[1..n -> Records] : n \in 1..MaxLines}

----------------------------------------------------------------------------
(* extractQAPairs: the two-pass correlator *)

\* both passes: !entry.message?.content, then !Array.isArray(content)
HasBlocks(entry) == entry.content.kind = "array"

\* the entry pass 1 stores for a request block
AskData(block, entry, idx) ==
  [questions |-> block.questions, lineIndex |-> idx,
   timestamp |-> entry.timestamp, toolUseId |-> block.id]

\* a pass 1 that registers every tool_use block, whatever its name
IndexBlock_AnyToolUse(map, block, entry, idx) ==
  IF block.type = "tool_use"
  THEN Put(map, block.id, AskData(block, entry, idx))
  ELSE map

\* a pass 1 that keeps the first request of an id
IndexBlock_FirstWins(map, block, entry, idx) ==
  IF block.type = "tool_use" /\ block.name = "AskUserQuestion" /\ block.id \notin DOMAIN map
  THEN Put(map, block.id, AskData(block, entry, idx))
  ELSE map

\* pass 1, one block: toolUseMap.set(block.id, {...}) for an AskUserQuestion tool_use
IndexBlock(map, block, entry, idx) ==
  IF block.type = "tool_use" /\ block.name = "AskUserQuestion"
  THEN Put(map, block.id, AskData(block, entry, idx))
  ELSE map

RECURSIVE IndexBlocks(_, _, _, _)
IndexBlocks(map, blocks, entry, idx) ==
  IF blocks = <<>> THEN map
  ELSE IndexBlocks(IndexBlock(map, Head(blocks), entry, idx), Tail(blocks), entry, idx)

\* pass 1, one record
IndexRecord(map, entry, idx) ==
  IF entry.type # "assistant" \/ ~HasBlocks(entry) THEN map
  ELSE IndexBlocks(map, entry.content.blocks, entry, idx)

\* an answer resolution that parses the fallback text whenever there is one
ResolveAnswers_PreferFallback(entry, block, askData) ==
  IF block.content.isString
  THEN parseAnswersFromContent(block.content, askData.questions)
  ELSE entry.toolUseResult.answers

\* pass 2: the answers of a response, structured if present, else parsed
ResolveAnswers(entry, block, askData) ==
  IF entry.toolUseResult.kind = "answers"
  THEN entry.toolUseResult.answers
  ELSE parseAnswersFromContent(block.content, askData.questions)

\* a pair with the two timestamps taken from the wrong records
NewPair_SwappedTimestamps(askData, resolved, entry, idx) ==
  [questions       |-> askData.questions,
   answers         |-> resolved,
   askTimestamp    |-> entry.timestamp,
   answerTimestamp |-> askData.timestamp,
   askLineIndex    |-> askData.lineIndex,
   answerLineIndex |-> idx,
   toolUseId       |-> askData.toolUseId]

\* the object pass 2 pushes
NewPair(askData, resolved, entry, idx) ==
  [questions       |-> askData.questions,
   answers         |-> resolved,
   askTimestamp    |-> askData.timestamp,
   answerTimestamp |-> entry.timestamp,
   askLineIndex    |-> askData.lineIndex,
   answerLineIndex |-> idx,
   toolUseId       |-> askData.toolUseId]

\* a pass 2 without the is_error check
MatchBlock_KeepErrors(prs, map, block, entry, idx) ==
  IF block.type = "tool_result" /\ block.tool_use_id \in DOMAIN map
  THEN LET askData == map[block.tool_use_id]
       IN  Append(prs, NewPair(askData, ResolveAnswers(entry, block, askData), entry, idx))
  ELSE prs

\* a pass 2 that puts each new pair in front (unshift for push)
MatchBlock_Unshift(prs, map, block, entry, idx) ==
  IF block.type = "tool_result" /\ block.tool_use_id \in DOMAIN map
  THEN IF block.is_error THEN prs
       ELSE LET askData == map[block.tool_use_id]
            IN  <<NewPair(askData, ResolveAnswers(entry, block, askData), entry, idx)>> \o prs
  ELSE prs

\* a pass 2 that accepts only requests from records before the response
MatchBlock_EarlierRequestOnly(prs, map, block, entry, idx) ==
  IF /\ block.type = "tool_result"
     /\ block.tool_use_id \in DOMAIN map
     /\ map[block.tool_use_id].lineIndex < idx
  THEN IF block.is_error THEN prs
       ELSE LET askData == map[block.tool_use_id]
            IN  Append(prs, NewPair(askData, ResolveAnswers(entry, block, askData), entry, idx))
  ELSE prs

\* pass 2, one block: pairs.push({...}) for a registered, non-error tool_result
MatchBlock(prs, map, block, entry, idx) ==
  IF block.type = "tool_result" /\ block.tool_use_id \in DOMAIN map
  THEN IF block.is_error THEN prs
       ELSE LET askData == map[block.tool_use_id]
            IN  Append(prs, NewPair(askData, ResolveAnswers(entry, block, askData), entry, idx))
  ELSE prs

RECURSIVE MatchBlocks(_, _, _, _, _)
MatchBlocks(prs, map, blocks, entry, idx) ==
  IF blocks = <<>> THEN prs
  ELSE MatchBlocks(MatchBlock(prs, map, Head(blocks), entry, idx), map, Tail(blocks), entry, idx)

\* pass 2, one record
MatchRecord(prs, map, entry, idx) ==
  IF entry.type # "user" \/ ~HasBlocks(entry) THEN prs
  ELSE MatchBlocks(prs, map, entry.content.blocks, entry, idx)

\* the passes over the records from position idx on
RECURSIVE IndexFrom(_, _, _)
IndexFrom(map, lines, idx) ==
  IF idx >= Len(lines) THEN map
  ELSE IndexFrom(IndexRecord(map, lines[idx + 1], idx), lines, idx + 1)

RECURSIVE MatchFrom(_, _, _, _)
MatchFrom(prs, map, lines, idx) ==
  IF idx >= Len(lines) THEN prs
  ELSE MatchFrom(MatchRecord(prs, map, lines[idx + 1], idx), map, lines, idx + 1)

\* the function as a whole
extractQAPairs(lines) == MatchFrom(<<>>, IndexFrom(EmptyMap, lines, 0), lines, 0)

\* pass 1: one iteration of the loop over parsedLines
IndexStep ==
  /\ pc = "pass1"
  /\ i < Len(parsedLines)
  /\ toolUseMap' = IndexRecord(toolUseMap, parsedLines[i + 1], i)
  /\ i' = i + 1
  /\ UNCHANGED <<parsedLines, pairs, contentStr, questions, qi, answers, pc, timelineVars, summaryVars, viewVars, readerVars, mainVars, renderVars, roundTripVars>>

\* pass 1 has run off the end of parsedLines: pass 2 starts
IndexDone ==
  /\ pc = "pass1"
  /\ i = Len(parsedLines)
  /\ pc' = "pass2"
  /\ i' = 0
  /\ UNCHANGED <<parsedLines, toolUseMap, pairs, contentStr, questions, qi, answers, timelineVars, summaryVars, viewVars, readerVars, mainVars, renderVars, roundTripVars>>

\* pass 2: one iteration of the loop over parsedLines
MatchStep ==
  /\ pc = "pass2"
  /\ i < Len(parsedLines)
  /\ pairs' = MatchRecord(pairs, toolUseMap, parsedLines[i + 1], i)
  /\ i' = i + 1
  /\ UNCHANGED <<parsedLines, toolUseMap, contentStr, questions, qi, answers, pc, timelineVars, summaryVars, viewVars, readerVars, mainVars, renderVars, roundTripVars>>

\* return pairs;
Return ==
  /\ pc = "pass2"
  /\ i = Len(parsedLines)
  /\ pc' = "done"
  /\ UNCHANGED <<parsedLines, toolUseMap, pairs, i, contentStr, questions, qi, answers, timelineVars, summaryVars, viewVars, readerVars, mainVars, renderVars, roundTripVars>>

\* the variables of the functions that are not running
IdleCorrelator == toolUseMap = EmptyMap /\ pairs = <<>>
IdleParser == contentStr = NotAString /\ questions = <<>> /\ qi = 0 /\ answers = EmptyMap
IdleTimeline == timeline = <<>>
IdleSummary == toolBlock = ToolUseBlock("", "") /\ snippet = <<>>
IdleView == allSessions = <<>> /\ withQA = <<>> /\ grouped = EmptyMap /\ totals = EmptyMap
IdleReader == fileLines = <<>> /\ keptLines = <<>>
NoRun == [done |-> FALSE, sessions |-> <<>>, view |-> EmptyMap]
IdleMain ==
  sessionFiles = <<>> /\ fileIdx = 0 /\ notices = <<>> /\ report = "none" /\ firstRun = NoRun
IdleRender == currentFilter = "all" /\ html = <<>> /\ renderedQAIds = {}
IdleRoundTrip == mapping = EmptyMap
IdleRest == IdleReader /\ IdleMain /\ IdleRender /\ IdleRoundTrip

Init ==
  /\ parsedLines \in RecordSequences
  /\ toolUseMap = EmptyMap
  /\ pairs = <<>>
  /\ i = 0
  /\ IdleParser
  /\ IdleTimeline
  /\ IdleSummary
  /\ IdleView
  /\ IdleRest
  /\ pc = "pass1"

Next == IndexStep \/ IndexDone \/ MatchStep \/ Return

Spec == Init /\ [][Next]_vars

----------------------------------------------------------------------------
(* The inputs parseAnswersFromContent is run on by itself *)

\* most pieces a fallback text is put together from
MaxPieces == 6

\* the pieces: `"a"="`, `b"="`, the delimiter, a quotation mark, a letter
Pieces == { Pattern(<<"a">>), <<"b", DQ, "=", DQ>>, Delimiter, <<DQ>>, <<"x">> }

RECURSIVE Flatten(_)
Flatten(ps) == IF ps = <<>> THEN <<>> ELSE Head(ps) \o Flatten(Tail(ps))

PieceTexts == {Flatten(ps) : ps \in UNION {[1..n -> Pieces] : n \in 0..MaxPieces}}

ShortQuestionLists ==
  { <<Question(<<"a">>)>>, <<Question(<<"b">>)>>,
    <<Question(<<"a">>), Question(<<"b">>)>>, <<Question(<<"b">>), Question(<<"a">>)>> }

\* the question texts "Color?" and "Size?"
Color == <<"C", "o", "l", "o", "r", "?">>
Size == <<"S", "i", "z", "e", "?">>

\* `"Color?"="blue", "Size?"="large"`
ColorSizeText ==
  <<DQ>> \o Color \o <<DQ, "=", DQ, "b", "l", "u", "e", DQ, ",", " ", DQ>> \o Size
    \o <<DQ, "=", DQ, "l", "a", "r", "g", "e", DQ>>

\* `"Color?"="blue and green"`
ColorText ==
  <<DQ>> \o Color \o <<DQ, "=", DQ, "b", "l", "u", "e", " ", "a", "n", "d", " ",
                      "g", "r", "e", "e", "n", DQ>>

\* <<content, questions>>
ParseInputs ==
  ({Str(t) : t \in PieceTexts} \cup {NotAString}) \X ShortQuestionLists
  \cup { <<Str(ColorSizeText), <<Question(Color), Question(Size)>> >>,
         <<Str(ColorText), <<Question(Color)>> >>,
         <<FallbackText, <<QuestionA, QuestionB>> >> }

InitParse ==
  /\ \E inp \in ParseInputs : contentStr = inp[1] /\ questions = inp[2]
  /\ qi = 0
  /\ answers = EmptyMap
  /\ parsedLines = <<>>
  /\ i = 0
  /\ IdleCorrelator
  /\ IdleTimeline
  /\ IdleSummary
  /\ IdleView
  /\ IdleRest
  /\ pc = "parse"

NextParse == ParseNotAString \/ ParseStep \/ ParseReturn

SpecParse == InitParse /\ [][NextParse]_vars

----------------------------------------------------------------------------
(* Vocabulary of the properties of extractQAPairs, read off the input alone *)

\* <<r, b>>: block b (from 1) of the record at 0-based position r
BlockPositions ==
  UNION { {<<r, b>> : b \in 1..Len(parsedLines[r + 1].content.blocks)} :
          r \in 0..(Len(parsedLines) - 1) }

EntryAt(pos) == parsedLines[pos[1] + 1]
BlockAt(pos) == EntryAt(pos).content.blocks[pos[2]]

\* structured-question-request blocks: AskUserQuestion tool_use in an assistant record
RequestPositions ==
  { pos \in BlockPositions :
      /\ EntryAt(pos).type = "assistant"
      /\ BlockAt(pos).type = "tool_use"
      /\ BlockAt(pos).name = "AskUserQuestion" }

\* response blocks: tool_result in a user record
ResponsePositions ==
  { pos \in BlockPositions :
      /\ EntryAt(pos).type = "user"
      /\ BlockAt(pos).type = "tool_result" }

RequestsFor(id) == {pos \in RequestPositions : BlockAt(pos).id = id}
ResponsesFor(id) == {pos \in ResponsePositions : BlockAt(pos).tool_use_id = id}

CorrelationIds ==
  {BlockAt(pos).id : pos \in RequestPositions}
    \cup {BlockAt(pos).tool_use_id : pos \in ResponsePositions}

\* record order, then block order
Before(p, q) == p[1] < q[1] \/ (p[1] = q[1] /\ p[2] < q[2])

\* the last request with this id
LastRequestFor(id) ==
  CHOOSE pos \in RequestsFor(id) : \A o \in RequestsFor(id) : o = pos \/ Before(o, pos)

\* the pairs emitted for an id, as positions in the pair list
PairsFor(id) == {k \in 1..Len(pairs) : pairs[k].toolUseId = id}

\* the response blocks of record r that are to yield a pair, in block order
RECURSIVE AnsweringBlocks(_, _)
AnsweringBlocks(r, b) ==
  IF b > Len(parsedLines[r + 1].content.blocks) THEN <<>>
  ELSE LET pos == <<r, b>>
       IN  (IF /\ pos \in ResponsePositions
               /\ ~BlockAt(pos).is_error
               /\ RequestsFor(BlockAt(pos).tool_use_id) # {}
            THEN <<pos>> ELSE <<>>) \o AnsweringBlocks(r, b + 1)

\* the pairs whose response record is record r, in list order
RECURSIVE PairsAt(_, _)
PairsAt(r, k) ==
  IF k > Len(pairs) THEN <<>>
  ELSE (IF pairs[k].answerLineIndex = r THEN <<pairs[k]>> ELSE <<>>) \o PairsAt(r, k + 1)

----------------------------------------------------------------------------
(* C1: when a request block and a non-error response block share a          *)
(* correlation id that no other request or response uses, extractQAPairs    *)
(* returns exactly one pair for that id, and it carries the request's       *)
(* question list, timestamp and position and the response's timestamp and   *)
(* position.                                                                *)

WellFormedExchange(id) ==
  /\ Cardinality(RequestsFor(id)) = 1
  /\ Cardinality(ResponsesFor(id)) = 1
  /\ \A pos \in ResponsesFor(id) : ~BlockAt(pos).is_error

C1_ExactlyOnePair ==
  pc = "done" =>
    \A id \in CorrelationIds :
      WellFormedExchange(id) =>
        /\ Cardinality(PairsFor(id)) = 1
        /\ \A k \in PairsFor(id) : \A req \in RequestsFor(id) : \A res \in ResponsesFor(id) :
             /\ pairs[k].questions = BlockAt(req).questions
             /\ pairs[k].askTimestamp = EntryAt(req).timestamp
             /\ pairs[k].askLineIndex = req[1]
             /\ pairs[k].answerTimestamp = EntryAt(res).timestamp
             /\ pairs[k].answerLineIndex = res[1]

C1_Witness ==
  /\ pc = "done"
  /\ \E id \in CorrelationIds :
       /\ WellFormedExchange(id)
       /\ \E req \in RequestsFor(id) : \E res \in ResponsesFor(id) :
            EntryAt(req).timestamp # EntryAt(res).timestamp
  /\ Len(pairs) = 1

----------------------------------------------------------------------------
(* C2: a response block whose correlation id no request block of the file   *)
(* registers yields no pair, and the returned pair list is the one the      *)
(* file without that block gives.                                           *)

UnmatchedResponses ==
  {pos \in ResponsePositions : RequestsFor(BlockAt(pos).tool_use_id) = {}}

RemoveAt(seq, b) == SubSeq(seq, 1, b - 1) \o SubSeq(seq, b + 1, Len(seq))

WithoutBlock(lines, pos) ==
  [lines EXCEPT ![pos[1] + 1].content.blocks = RemoveAt(@, pos[2])]

C2_UnmatchedResponseIgnored ==
  pc = "done" =>
    \A pos \in UnmatchedResponses :
      /\ PairsFor(BlockAt(pos).tool_use_id) = {}
      /\ pairs = extractQAPairs(WithoutBlock(parsedLines, pos))

C2_Witness ==
  /\ pc = "done"
  /\ UnmatchedResponses # {}
  /\ pairs # <<>>

----------------------------------------------------------------------------
(* C3: a response block flagged is_error yields no pair, also when its id   *)
(* is registered and the record carries structured answers, and the other   *)
(* response blocks of the record are still processed: the pairs of a        *)
(* response record are, in order, those of its non-error response blocks    *)
(* with a registered id.                                                    *)

C3_ErrorResponseSkipped ==
  pc = "done" =>
    \A r \in 0..(Len(parsedLines) - 1) :
      LET emitted  == PairsAt(r, 1)
          expected == AnsweringBlocks(r, 1)
      IN  /\ Len(emitted) = Len(expected)
          /\ \A k \in 1..Len(emitted) :
               k <= Len(expected) =>
                 emitted[k].toolUseId = BlockAt(expected[k]).tool_use_id

C3_Witness ==
  /\ pc = "done"
  /\ \E pos \in ResponsePositions :
       /\ BlockAt(pos).is_error
       /\ RequestsFor(BlockAt(pos).tool_use_id) # {}
       /\ EntryAt(pos).toolUseResult.kind = "answers"
       /\ \E k \in 1..Len(pairs) : pairs[k].answerLineIndex = pos[1]

----------------------------------------------------------------------------
(* C4: a pair whose response record carries toolUseResult.answers has       *)
(* exactly that mapping as its answers; only without it are the answers     *)
(* those parsed from the response block's content.  The request X asking    *)
(* "Proceed?" followed by the structured response {"Proceed?": "Yes"}       *)
(* gives one pair answering "Yes".                                          *)

ProceedExample ==
  << Record("assistant", "t1", ArrayContent(<<AskBlock("X", <<QuestionA>>)>>), NoToolUseResult),
     Record("user", "t5", ArrayContent(<<ResultBlock("X", FALSE, FallbackText)>>),
            ToolUseResult(StructuredAnswers)) >>

C4_StructuredAnswersVerbatim ==
  pc = "done" =>
    /\ \A k \in 1..Len(pairs) :
         LET r     == pairs[k].answerLineIndex
             entry == parsedLines[r + 1]
         IN  IF entry.toolUseResult.kind = "answers"
             THEN pairs[k].answers = entry.toolUseResult.answers
             ELSE \E pos \in ResponsePositions :
                    /\ pos[1] = r
                    /\ BlockAt(pos).tool_use_id = pairs[k].toolUseId
                    /\ ~BlockAt(pos).is_error
                    /\ pairs[k].answers =
                         parseAnswersFromContent(BlockAt(pos).content, pairs[k].questions)
    /\ parsedLines = ProceedExample =>
         /\ Len(pairs) = 1
         /\ pairs[1].answers = (Proceed :> <<"Y", "e", "s">>)

C4_Witness ==
  /\ pc = "done"
  /\ parsedLines = ProceedExample
  /\ Len(pairs) = 1
  /\ pairs[1].answers[Proceed] = <<"Y", "e", "s">>

----------------------------------------------------------------------------
(* C5: for every known question whose pattern `"q"="` occurs in the         *)
(* fallback text, the answer returned for it is the text from right after   *)
(* the pattern up to the next delimiter `", "`, else up to the last         *)
(* quotation mark of the string, else (no quotation mark there) up to the   *)
(* end of the string.                                                       *)

PatternOccurs(s, qText) == \E p \in 0..Len(s) : OccursAt(s, Pattern(qText), p)

\* right after the (first) occurrence of the pattern
ClaimedStart(s, qText) ==
  LET hits == {p \in 0..Len(s) : OccursAt(s, Pattern(qText), p)}
  IN  (CHOOSE p \in hits : \A o \in hits : p <= o) + Len(Pattern(qText))

ClaimedEnd(s, start) ==
  LET delims == {p \in start..Len(s) : OccursAt(s, Delimiter, p)}
      quotes == {p \in start..(Len(s) - 1) : s[p + 1] = DQ}
  IN  IF delims # {} THEN CHOOSE p \in delims : \A o \in delims : p <= o
      ELSE IF quotes # {} THEN CHOOSE p \in quotes : \A o \in quotes : p >= o
      ELSE Len(s)

C5_AnswerExtent ==
  (pc = "parsed" /\ contentStr.isString) =>
    \A k \in 1..Len(questions) :
      LET qText == questions[k].question
          s     == contentStr.chars
      IN  PatternOccurs(s, qText) =>
            /\ qText \in DOMAIN answers
            /\ answers[qText] =
                 Substring(s, ClaimedStart(s, qText), ClaimedEnd(s, ClaimedStart(s, qText)))

----------------------------------------------------------------------------
(* C6: the mapping the fallback parser returns has only texts of the known  *)
(* questions as keys, has no entry for a question whose pattern does not    *)
(* occur in the text, and is empty when the content is not a string.        *)

C6_OnlyFoundQuestions ==
  pc = "parsed" =>
    /\ DOMAIN answers \subseteq {questions[k].question : k \in 1..Len(questions)}
    /\ \A k \in 1..Len(questions) :
         (contentStr.isString /\ ~PatternOccurs(contentStr.chars, questions[k].question))
           => questions[k].question \notin DOMAIN answers
    /\ ~contentStr.isString => answers = EmptyMap

C6_Witness ==
  /\ pc = "parsed"
  /\ contentStr.isString
  /\ \E k \in 1..Len(questions) : ~PatternOccurs(contentStr.chars, questions[k].question)
  /\ \E k \in 1..Len(questions) : questions[k].question \in DOMAIN answers

----------------------------------------------------------------------------
(* C7: the pair list is ordered by the position of the response records:    *)
(* answerLineIndex never decreases along the list, whatever the order of    *)
(* the requests.                                                            *)

C7_PairsInResponseOrder ==
  \A j \in 1..Len(pairs) : \A k \in 1..Len(pairs) :
    j < k => pairs[j].answerLineIndex <= pairs[k].answerLineIndex

\* request A precedes request B, B's response record precedes A's: B's pair is first
C7_Witness ==
  /\ pc = "done"
  /\ Len(pairs) = 2
  /\ RequestsFor(pairs[1].toolUseId) # {}
  /\ RequestsFor(pairs[2].toolUseId) # {}
  /\ Before(LastRequestFor(pairs[2].toolUseId), LastRequestFor(pairs[1].toolUseId))
  /\ pairs[1].answerLineIndex < pairs[2].answerLineIndex

----------------------------------------------------------------------------
(* C8: a non-error response block whose id a request block registers        *)
(* anywhere in the record sequence, before or after the response, yields a  *)
(* pair.                                                                    *)

C8_CorrelationByIdNotPosition ==
  pc = "done" =>
    \A pos \in ResponsePositions :
      (~BlockAt(pos).is_error /\ RequestsFor(BlockAt(pos).tool_use_id) # {}) =>
        \E k \in 1..Len(pairs) :
          /\ pairs[k].answerLineIndex = pos[1]
          /\ pairs[k].toolUseId = BlockAt(pos).tool_use_id

C8_Witness ==
  /\ pc = "done"
  /\ \E k \in 1..Len(pairs) : pairs[k].askLineIndex > pairs[k].answerLineIndex

----------------------------------------------------------------------------
(* C9: when several request blocks carry the same id, every pair emitted    *)
(* for the id carries the question list, timestamp and position of the      *)
(* last of them (record order, then block order).                           *)

C9_LastRequestWins ==
  pc = "done" =>
    \A k \in 1..Len(pairs) :
      /\ RequestsFor(pairs[k].toolUseId) # {}
      /\ LET req == LastRequestFor(pairs[k].toolUseId)
         IN  /\ pairs[k].questions = BlockAt(req).questions
             /\ pairs[k].askTimestamp = EntryAt(req).timestamp
             /\ pairs[k].askLineIndex = req[1]

C9_Witness ==
  /\ pc = "done"
  /\ \E k \in 1..Len(pairs) :
       \E first \in RequestsFor(pairs[k].toolUseId) :
         /\ first # LastRequestFor(pairs[k].toolUseId)
         /\ BlockAt(first).questions # pairs[k].questions

----------------------------------------------------------------------------
(* C10: no emitted pair comes from a request record or a response record    *)
(* without a timestamp: every pair has an ask and an answer timestamp.      *)

C10_PairsHaveTimestamps ==
  pc = "done" =>
    \A k \in 1..Len(pairs) :
      /\ pairs[k].askTimestamp # NoTimestamp
      /\ pairs[k].answerTimestamp # NoTimestamp

----------------------------------------------------------------------------
(* summarizeToolInput: the one-line summary of a tool call *)

\* the display length of a summary: slice(0, 120)
DisplayLength == 120

\* s.slice(0, n)
Slice(s, n) == SubSeq(s, 1, IF Len(s) < n THEN Len(s) ELSE n)

\* the label of `pattern: ${input.pattern}`
PatternLabel == <<"p", "a", "t", "t", "e", "r", "n", ":", " ">>

\* the keys of block.input in the order JSON.stringify writes them
InputKeys ==
  << <<"command", <<"c", "o", "m", "m", "a", "n", "d">> >>,
     <<"file_path", <<"f", "i", "l", "e", "_", "p", "a", "t", "h">> >>,
     <<"pattern", <<"p", "a", "t", "t", "e", "r", "n">> >>,
     <<"query", <<"q", "u", "e", "r", "y">> >>,
     <<"url", <<"u", "r", "l">> >>,
     <<"content", <<"c", "o", "n", "t", "e", "n", "t">> >>,
     <<"description", <<"d", "e", "s", "c", "r", "i", "p", "t", "i", "o", "n">> >> >>

\* the members `"key":"value"` of the fields from position k on, comma-separated
RECURSIVE Members(_, _, _)
Members(input, k, first) ==
  IF k > Len(InputKeys) THEN <<>>
  ELSE LET value == input[InputKeys[k][1]]
       IN  IF value = <<>> THEN Members(input, k + 1, first)
           ELSE (IF first THEN <<>> ELSE <<",">>)
                  \o <<DQ>> \o InputKeys[k][2] \o <<DQ, ":", DQ>> \o value \o <<DQ>>
                  \o Members(input, k + 1, FALSE)

\* JSON.stringify(input) for an input whose values are strings without quotation marks
Stringify(input) == <<"{">> \o Members(input, 1, TRUE) \o <<"}">>

\* a summary that looks at the file path before the command
summarizeToolInput_PathFirst(block) ==
  LET input == block.input
  IN  IF ~input.present THEN <<>>
      ELSE IF input.file_path # <<>> THEN input.file_path
      ELSE IF input.command # <<>> THEN Slice(input.command, DisplayLength)
      ELSE IF input.pattern # <<>> THEN PatternLabel \o input.pattern
      ELSE IF input.query # <<>> THEN Slice(input.query, DisplayLength)
      ELSE IF input.url # <<>> THEN input.url
      ELSE IF input.content # <<>> THEN Slice(input.content, DisplayLength)
      ELSE Slice(Stringify(input), DisplayLength)

summarizeToolInput(block) ==
  LET input == block.input
  IN  IF ~input.present THEN <<>>
      ELSE IF input.command # <<>> THEN Slice(input.command, DisplayLength)
      ELSE IF input.file_path # <<>> THEN input.file_path
      ELSE IF input.pattern # <<>> THEN PatternLabel \o input.pattern
      ELSE IF input.query # <<>> THEN Slice(input.query, DisplayLength)
      ELSE IF input.url # <<>> THEN input.url
      ELSE IF input.content # <<>> THEN Slice(input.content, DisplayLength)
      ELSE Slice(Stringify(input), DisplayLength)

\* a tool_use block of a tool other than AskUserQuestion, with arguments
ToolCallBlock(name, id, input) ==
  [type |-> "tool_use", name |-> name, id |-> id, questions |-> <<>>,
   tool_use_id |-> "", is_error |-> FALSE, content |-> NotAString, text |-> <<>>,
   input |-> input]

\* a text longer than the display length
LongText(char) == [k \in 1..(DisplayLength + 1) |-> char]

\* the values of an argument field: missing, short, longer than the display length
FieldValues(char) == { <<>>, <<char>>, LongText(char) }

ToolInputs ==
  { ToolInput(c, f, p, q, u, t, d) :
      c \in FieldValues("c"), f \in FieldValues("f"), p \in FieldValues("p"),
      q \in FieldValues("q"), u \in FieldValues("u"), t \in FieldValues("t"),
      d \in { <<>>, <<"d">> } }
    \cup { NoInput }

\* const snippet = summarizeToolInput(block);
Summarize ==
  /\ pc = "summarize"
  /\ snippet' = summarizeToolInput(toolBlock)
  /\ pc' = "summarized"
  /\ UNCHANGED <<parsedLines, i, correlatorVars, parserVars, timelineVars, toolBlock, viewVars, readerVars, mainVars, renderVars, roundTripVars>>

InitSummary ==
  /\ toolBlock \in {ToolCallBlock("Bash", "B", input) : input \in ToolInputs}
  /\ snippet = <<>>
  /\ parsedLines = <<>>
  /\ i = 0
  /\ IdleCorrelator
  /\ IdleParser
  /\ IdleTimeline
  /\ IdleView
  /\ IdleRest
  /\ pc = "summarize"

NextSummary == Summarize

SpecSummary == InitSummary /\ [][NextSummary]_vars

----------------------------------------------------------------------------
(* C15: the summary of a tool call is taken from the first non-empty        *)
(* argument field in the order command, file path, search pattern, query,   *)
(* URL, literal content; when none is non-empty it is the serialized        *)
(* arguments, and it is empty when the block has no arguments at all.       *)

PriorityOrder == <<"command", "file_path", "pattern", "query", "url", "content">>

NonEmptyFields(input) == {k \in 1..Len(PriorityOrder) : input[PriorityOrder[k]] # <<>>}

FirstNonEmpty(input) ==
  CHOOSE k \in NonEmptyFields(input) : \A o \in NonEmptyFields(input) : k <= o

\* the summary shows this value: whole, cut to the display length, or labelled
TakenFrom(summary, value) ==
  \/ summary = value
  \/ summary = Slice(value, DisplayLength)
  \/ summary = PatternLabel \o value

C15_SummaryPriority ==
  pc = "summarized" =>
    LET input == toolBlock.input
    IN  IF ~input.present THEN snippet = <<>>
        ELSE IF NonEmptyFields(input) = {}
             THEN snippet = Slice(Stringify(input), DisplayLength)
             ELSE TakenFrom(snippet, input[PriorityOrder[FirstNonEmpty(input)]])

C15_Witness ==
  /\ pc = "summarized"
  /\ toolBlock.input.command = <<>>
  /\ toolBlock.input.file_path = <<>>
  /\ toolBlock.input.pattern # <<>>
  /\ toolBlock.input.url # <<>>
  /\ snippet = PatternLabel \o toolBlock.input.pattern

----------------------------------------------------------------------------
(* stripTags and the text tests of buildSessionTimeline *)

\* the shortest cleaned text that is kept: cleaned.length < 3 is skipped
MinTextLength == 3

\* the first position k >= from with s[k] = ">", 0 when there is none
NextClose(s, from) ==
  LET hits == {k \in from..Len(s) : s[k] = ">"}
  IN  IF hits = {} THEN 0 ELSE CHOOSE k \in hits : \A o \in hits : k <= o

\* str.replace(/<[^>]+>/g, ''): "<", one or more characters other than ">", ">"
RECURSIVE RemoveTags(_)
RemoveTags(s) ==
  IF s = <<>> THEN <<>>
  ELSE LET close == NextClose(s, 2)
       IN  IF Head(s) = "<" /\ close >= 3
           THEN RemoveTags(SubSeq(s, close + 1, Len(s)))
           ELSE <<Head(s)>> \o RemoveTags(Tail(s))

IsSpace(c) == c \in {" ", "\t", "\n", "\r"}

\* str.trim()
RECURSIVE TrimStart(_)
TrimStart(s) == IF s # <<>> /\ IsSpace(Head(s)) THEN TrimStart(Tail(s)) ELSE s

RECURSIVE TrimEnd(_)
TrimEnd(s) ==
  IF s # <<>> /\ IsSpace(s[Len(s)]) THEN TrimEnd(SubSeq(s, 1, Len(s) - 1)) ELSE s

Trim(s) == TrimEnd(TrimStart(s))

\* stripTags(str); a missing str is <<>> and gives ''
stripTags(str) == IF str = <<>> THEN <<>> ELSE Trim(RemoveTags(str))

\* the letters of the regular expression's alternatives, for its i flag
LowerCase(c) ==
  CASE c = "A" -> "a" [] c = "C" -> "c" [] c = "D" -> "d" [] c = "S" -> "s"
    [] c = "T" -> "t" [] c = "O" -> "o" [] c = "Y" -> "y" [] c = "F" -> "f"
    [] c = "H" -> "h" [] c = "E" -> "e" [] c = "N" -> "n" [] c = "R" -> "r"
    [] c = "U" -> "u" [] c = "I" -> "i" [] c = "L" -> "l" [] c = "G" -> "g"
    [] c = "W" -> "w" [] c = "K" -> "k" [] c = "P" -> "p" [] c = "B" -> "b"
    [] OTHER -> c

StartsWithIgnoreCase(s, prefix) ==
  /\ Len(s) >= Len(prefix)
  /\ \A k \in 1..Len(prefix) : LowerCase(s[k]) = LowerCase(prefix[k])

\* SessionStart | currentDate | Today | The following | As you answer
BoilerplatePrefixes ==
  { <<"S", "e", "s", "s", "i", "o", "n", "S", "t", "a", "r", "t">>,
    <<"c", "u", "r", "r", "e", "n", "t", "D", "a", "t", "e">>,
    <<"T", "o", "d", "a", "y">>,
    <<"T", "h", "e", " ", "f", "o", "l", "l", "o", "w", "i", "n", "g">>,
    <<"A", "s", " ", "y", "o", "u", " ", "a", "n", "s", "w", "e", "r">> }

\* /^(SessionStart|currentDate|Today|The following|As you answer)/i.test(cleaned)
IsBoilerplate(cleaned) == \E p \in BoilerplatePrefixes : StartsWithIgnoreCase(cleaned, p)

----------------------------------------------------------------------------
(* buildSessionTimeline: the single pass that builds the timeline *)

\* timeline entries; a field an entry does not have is "" / <<>> / EmptyMap
TextEntry(type, entry, cleaned, idx) ==
  [type |-> type, timestamp |-> entry.timestamp, content |-> cleaned, lineIndex |-> idx,
   toolUseId |-> "", questions |-> <<>>, toolName |-> "", answers |-> EmptyMap]

AskEntry(entry, block, idx) ==
  [type |-> "ask_user_question", timestamp |-> entry.timestamp, content |-> <<>>,
   lineIndex |-> idx, toolUseId |-> block.id, questions |-> block.questions,
   toolName |-> "", answers |-> EmptyMap]

ToolUseEntry(entry, block, idx) ==
  [type |-> "tool_use", timestamp |-> entry.timestamp,
   content |-> summarizeToolInput(block), lineIndex |-> idx,
   toolUseId |-> "", questions |-> <<>>, toolName |-> block.name, answers |-> EmptyMap]

AnswerEntry(entry, block, idx) ==
  [type |-> "user_answer", timestamp |-> entry.timestamp, content |-> <<>>,
   lineIndex |-> idx, toolUseId |-> block.tool_use_id, questions |-> <<>>,
   toolName |-> "", answers |-> entry.toolUseResult.answers]


\* an append that puts the entry in front
Push_Front(tl, e) == <<e>> \o tl

\* timeline.push(e)
Push(tl, e) == Append(tl, e)

\* a block handler that treats AskUserQuestion like every other tool
AssistantBlock_AskAsToolCall(tl, block, entry, idx) ==
  IF block.type = "thinking" THEN tl
  ELSE IF block.type = "text" /\ Trim(block.text) # <<>>
       THEN LET cleaned == stripTags(block.text)
            IN  IF Len(cleaned) < MinTextLength THEN tl
                ELSE Push(tl, TextEntry("assistant_text", entry, cleaned, idx))
       ELSE IF block.type = "tool_use"
            THEN Push(tl, ToolUseEntry(entry, block, idx))
            ELSE tl

\* one block of an assistant record
AssistantBlock(tl, block, entry, idx) ==
  IF block.type = "thinking" THEN tl
  ELSE IF block.type = "text" /\ Trim(block.text) # <<>>
       THEN LET cleaned == stripTags(block.text)
            IN  IF Len(cleaned) < MinTextLength THEN tl
                ELSE Push(tl, TextEntry("assistant_text", entry, cleaned, idx))
       ELSE IF block.type = "tool_use"
            THEN IF block.name = "AskUserQuestion"
                 THEN Push(tl, AskEntry(entry, block, idx))
                 ELSE Push(tl, ToolUseEntry(entry, block, idx))
            ELSE tl

\* one block of a user record whose content is an array
UserBlock(tl, block, entry, idx) ==
  IF block.type = "text"
  THEN LET cleaned == stripTags(block.text)
       IN  IF Len(cleaned) < MinTextLength THEN tl
           ELSE IF IsBoilerplate(cleaned) THEN tl
           ELSE Push(tl, TextEntry("user_text", entry, cleaned, idx))
  ELSE IF block.type = "tool_result"
       THEN IF entry.toolUseResult.kind # "missing"
            THEN Push(tl, AnswerEntry(entry, block, idx))
            ELSE tl
       ELSE tl

RECURSIVE AssistantBlocks(_, _, _, _)
AssistantBlocks(tl, blocks, entry, idx) ==
  IF blocks = <<>> THEN tl
  ELSE AssistantBlocks(AssistantBlock(tl, Head(blocks), entry, idx), Tail(blocks), entry, idx)

RECURSIVE UserBlocks(_, _, _, _)
UserBlocks(tl, blocks, entry, idx) ==
  IF blocks = <<>> THEN tl
  ELSE UserBlocks(UserBlock(tl, Head(blocks), entry, idx), Tail(blocks), entry, idx)

\* the body of the loop once the record is known to have a message and a timestamp
TimelineContent(tl, entry, idx) ==
  IF entry.type = "file-history-snapshot" THEN tl
  ELSE IF entry.type = "assistant"
       THEN IF entry.content.kind # "array" THEN tl
            ELSE AssistantBlocks(tl, entry.content.blocks, entry, idx)
       ELSE IF entry.type = "user"
            THEN IF entry.content.kind = "string"
                 THEN LET cleaned == stripTags(entry.content.text)
                      IN  IF Len(cleaned) >= MinTextLength
                          THEN Push(tl, TextEntry("user_text", entry, cleaned, idx))
                          ELSE tl
                 ELSE IF entry.content.kind = "array"
                      THEN UserBlocks(tl, entry.content.blocks, entry, idx)
                      ELSE tl
            ELSE tl

\* a loop body that does not look at the timestamp
TimelineRecord_AnyTimestamp(tl, entry, idx) ==
  IF entry.content.kind = "missing" THEN tl
  ELSE TimelineContent(tl, entry, idx)

\* one record: if (!entry.message || !entry.timestamp) continue; ...
TimelineRecord(tl, entry, idx) ==
  IF entry.content.kind = "missing" \/ entry.timestamp = NoTimestamp THEN tl
  ELSE TimelineContent(tl, entry, idx)

RECURSIVE TimelineFrom(_, _, _)
TimelineFrom(tl, lines, idx) ==
  IF idx >= Len(lines) THEN tl
  ELSE TimelineFrom(TimelineRecord(tl, lines[idx + 1], idx), lines, idx + 1)

\* the function as a whole
buildSessionTimeline(lines) == TimelineFrom(<<>>, lines, 0)

\* one iteration of the loop over parsedLines
TimelineStep ==
  /\ pc = "timeline"
  /\ i < Len(parsedLines)
  /\ timeline' = TimelineRecord(timeline, parsedLines[i + 1], i)
  /\ i' = i + 1
  /\ UNCHANGED <<parsedLines, correlatorVars, parserVars, summaryVars, viewVars, pc, readerVars, mainVars, renderVars, roundTripVars>>

\* return timeline;
TimelineReturn ==
  /\ pc = "timeline"
  /\ i = Len(parsedLines)
  /\ pc' = "timelined"
  /\ UNCHANGED <<parsedLines, i, correlatorVars, parserVars, timelineVars, summaryVars, viewVars, readerVars, mainVars, renderVars, roundTripVars>>

----------------------------------------------------------------------------
(* The records buildSessionTimeline is run on *)

ThinkingBlock ==
  [type |-> "thinking", name |-> "", id |-> "", questions |-> <<>>,
   tool_use_id |-> "", is_error |-> FALSE, content |-> NotAString, text |-> <<>>,
   input |-> NoInput]

\* "Sure", "ok", "<b>hi</b>" (cleaned: "hi"), "Today ok", "today", "SessionStart", " Fix it "
SureText == <<"S", "u", "r", "e">>
OkText == <<"o", "k">>
TaggedText == <<"<", "b", ">", "h", "i", "<", "/", "b", ">">>
TodayText == <<"T", "o", "d", "a", "y", " ", "o", "k">>
LowerTodayText == <<"t", "o", "d", "a", "y">>
SessionStartText == <<"<", "x", ">", "S", "e", "s", "s", "i", "o", "n", "S", "t", "a", "r", "t">>
FixText == <<" ", "F", "i", "x", " ", "i", "t", " ">>

\* block.input with a command, and with a file path longer than the display length
CommandInput == ToolInput(<<"l", "s">>, <<>>, <<>>, <<>>, <<>>, <<>>, <<"d">>)
LongPathInput == ToolInput(<<>>, LongText("f"), <<>>, <<>>, <<>>, <<>>, <<>>)

TimelineAssistantRecords ==
  { Record("assistant", "t1", ArrayContent(<<ThinkingBlock, TextBlock(SureText),
                                             ToolCallBlock("Bash", "B", CommandInput)>>), NoToolUseResult),
    Record("assistant", "t1", ArrayContent(<<AskBlock("X", <<QuestionA>>)>>), NoToolUseResult),
    Record("assistant", "t2", ArrayContent(<<TextBlock(OkText), AskBlock("Y", <<QuestionA, QuestionB>>),
                                             ToolCallBlock("Read", "R", LongPathInput)>>), NoToolUseResult),
    Record("assistant", "t2", ArrayContent(<<TextBlock(TodayText)>>), NoToolUseResult),
    Record("assistant", "t3", ArrayContent(<<TextBlock(TaggedText), TextBlock(SureText)>>), NoToolUseResult),
    Record("assistant", NoTimestamp, ArrayContent(<<AskBlock("X", <<QuestionA>>),
                                                    TextBlock(SureText)>>), NoToolUseResult),
    Record("assistant", "t1", StringContent(SureText), NoToolUseResult) }

TimelineUserRecords ==
  { Record("user", "t4", StringContent(FixText), NoToolUseResult),
    Record("user", "t4", StringContent(TodayText), NoToolUseResult),
    Record("user", "t4", StringContent(OkText), NoToolUseResult),
    Record("user", "t5", ArrayContent(<<TextBlock(SessionStartText), TextBlock(FixText)>>), NoToolUseResult),
    Record("user", "t5", ArrayContent(<<TextBlock(LowerTodayText), TextBlock(TaggedText)>>), NoToolUseResult),
    Record("user", "t5", ArrayContent(<<ResultBlock("X", FALSE, FallbackText)>>),
           ToolUseResult(StructuredAnswers)),
    Record("user", "t5", ArrayContent(<<ResultBlock("X", FALSE, FallbackText)>>), NoToolUseResult),
    Record("user", "t6", ArrayContent(<<ResultBlock("B", FALSE, Str(OkText))>>), ToolUseResultOther),
    Record("user", "t6", ArrayContent(<<ResultBlock("B", FALSE, Str(OkText)),
                                        TextBlock(FixText)>>), NoToolUseResult),
    Record("user", NoTimestamp, ArrayContent(<<TextBlock(FixText), ResultBlock("X", FALSE, FallbackText)>>),
           ToolUseResult(StructuredAnswers)),
    Record("user", "t4", NoContent, NoToolUseResult) }

TimelineOtherRecords ==
  { Record("system", "t1", ArrayContent(<<TextBlock(SureText)>>), NoToolUseResult),
    Record("file-history-snapshot", "t1", ArrayContent(<<TextBlock(SureText)>>), NoToolUseResult) }

TimelineRecords == TimelineAssistantRecords \cup TimelineUserRecords \cup TimelineOtherRecords

TimelineSequences == UNION {[1..n -> TimelineRecords] : n \in 1..MaxLines}

InitTimeline ==
  /\ parsedLines \in TimelineSequences
  /\ i = 0
  /\ timeline = <<>>
  /\ IdleCorrelator
  /\ IdleParser
  /\ IdleSummary
  /\ IdleView
  /\ IdleRest
  /\ pc = "timeline"

NextTimeline == TimelineStep \/ TimelineReturn

SpecTimeline == InitTimeline /\ [][NextTimeline]_vars

----------------------------------------------------------------------------
(* Vocabulary of the properties of buildSessionTimeline *)

\* the timeline entries whose source record is record r, in timeline order
EntriesAt(r) == SelectSeq(timeline, LAMBDA e : e.lineIndex = r)

\* a record the timeline may draw from: it has a message and a timestamp
Placeable(entry) == entry.content.kind # "missing" /\ entry.timestamp # NoTimestamp

\* entry e is the projection of the block at pos
ProjectionOf(e, pos) ==
  LET block == BlockAt(pos)
  IN  CASE e.type \in {"assistant_text", "user_text"} ->
             block.type = "text" /\ e.content = stripTags(block.text)
        [] e.type = "ask_user_question" ->
             /\ block.type = "tool_use" /\ block.name = "AskUserQuestion"
             /\ e.toolUseId = block.id /\ e.questions = block.questions
        [] e.type = "tool_use" ->
             block.type = "tool_use" /\ e.toolName = block.name
        [] e.type = "user_answer" ->
             block.type = "tool_result" /\ e.toolUseId = block.tool_use_id
        [] OTHER -> FALSE

\* the request blocks of record r, in block order
AskBlocksOf(r) ==
  SelectSeq(parsedLines[r + 1].content.blocks,
            LAMBDA b : b.type = "tool_use" /\ b.name = "AskUserQuestion")

\* the texts of the text blocks of record r, in block order
TextsOfBlocks(r) ==
  LET texts == SelectSeq(parsedLines[r + 1].content.blocks, LAMBDA b : b.type = "text")
  IN  [k \in 1..Len(texts) |-> texts[k].text]

\* the narrative texts of record r: assistant or user text blocks, or a user's plain string
NarrativeTexts(r) ==
  LET entry == parsedLines[r + 1]
  IN  IF ~Placeable(entry) THEN <<>>
      ELSE IF entry.type = "user" /\ entry.content.kind = "string" THEN <<entry.content.text>>
      ELSE IF entry.type \in {"assistant", "user"} /\ entry.content.kind = "array"
           THEN TextsOfBlocks(r)
           ELSE <<>>

----------------------------------------------------------------------------
(* C11: the timeline keeps the input order: lineIndex never decreases       *)
(* along it, the entries of one record are in the order of their blocks,    *)
(* and no block is projected twice.                                         *)

C11_TimelineInInputOrder ==
  /\ \A j \in 1..Len(timeline) : \A k \in 1..Len(timeline) :
       j < k => timeline[j].lineIndex <= timeline[k].lineIndex
  /\ \A r \in 0..(Len(parsedLines) - 1) :
       LET es     == EntriesAt(r)
           entry  == parsedLines[r + 1]
           blocks == entry.content.blocks
       IN  IF entry.content.kind = "string"
           THEN Len(es) <= 1 /\ \A k \in 1..Len(es) : es[k].content = stripTags(entry.content.text)
           ELSE \E f \in [1..Len(es) -> 1..Len(blocks)] :
                  /\ \A j \in 1..Len(es) : \A k \in 1..Len(es) : j < k => f[j] < f[k]
                  /\ \A k \in 1..Len(es) : ProjectionOf(es[k], <<r, f[k]>>)

C11_Witness ==
  /\ pc = "timelined"
  /\ \E r \in 0..(Len(parsedLines) - 1) : Len(EntriesAt(r)) >= 2
  /\ \E j \in 1..Len(timeline) : \E k \in 1..Len(timeline) :
       timeline[j].lineIndex < timeline[k].lineIndex

----------------------------------------------------------------------------
(* C12: no timeline entry comes from a thinking block, and none of any      *)
(* kind comes from a tool_result that does not answer an AskUserQuestion    *)
(* request of the file.                                                     *)

\* the blocks of record r that are neither thinking nor a generic tool_result
NotNoise(r) ==
  SelectSeq(parsedLines[r + 1].content.blocks,
            LAMBDA b : /\ b.type # "thinking"
                       /\ (b.type = "tool_result" => RequestsFor(b.tool_use_id) # {}))

C12_NoiseSuppressed ==
  pc = "timelined" =>
    /\ \A k \in 1..Len(timeline) :
         /\ timeline[k].type \notin {"thinking", "tool_result"}
         /\ timeline[k].type = "user_answer" => RequestsFor(timeline[k].toolUseId) # {}
    /\ \A r \in 0..(Len(parsedLines) - 1) :
         parsedLines[r + 1].content.kind = "array" => Len(EntriesAt(r)) <= Len(NotNoise(r))

----------------------------------------------------------------------------
(* C13: a record without a timestamp contributes no timeline entry, and     *)
(* every entry carries the non-empty timestamp of its source record.        *)

C13_TimestampedEntriesOnly ==
  /\ \A k \in 1..Len(timeline) :
       /\ timeline[k].timestamp # NoTimestamp
       /\ timeline[k].timestamp = parsedLines[timeline[k].lineIndex + 1].timestamp
  /\ \A r \in 0..(Len(parsedLines) - 1) :
       parsedLines[r + 1].timestamp = NoTimestamp => EntriesAt(r) = <<>>

C13_Witness ==
  /\ pc = "timelined"
  /\ timeline # <<>>
  /\ \E r \in 0..(Len(parsedLines) - 1) :
       /\ parsedLines[r + 1].timestamp = NoTimestamp
       /\ \E b \in 1..Len(parsedLines[r + 1].content.blocks) :
            parsedLines[r + 1].content.blocks[b].type = "tool_use"

----------------------------------------------------------------------------
(* C14: a narrative text (assistant text block, user text block, or a user  *)
(* record's plain string) gives a narrative entry unless its cleaned text   *)
(* is shorter than 3 characters or starts with a boilerplate prefix; no     *)
(* narrative entry is empty.                                                *)

Kept(text) ==
  /\ Len(stripTags(text)) >= MinTextLength
  /\ ~IsBoilerplate(stripTags(text))

ExpectedNarrative(r) ==
  LET kept == SelectSeq(NarrativeTexts(r), Kept)
  IN  [k \in 1..Len(kept) |-> stripTags(kept[k])]

EmittedNarrative(r) ==
  LET es == SelectSeq(EntriesAt(r), LAMBDA e : e.type \in {"assistant_text", "user_text"})
  IN  [k \in 1..Len(es) |-> es[k].content]

C14_NarrativeFilter ==
  pc = "timelined" =>
    /\ \A r \in 0..(Len(parsedLines) - 1) : EmittedNarrative(r) = ExpectedNarrative(r)
    /\ \A k \in 1..Len(timeline) :
         timeline[k].type \in {"assistant_text", "user_text"} => timeline[k].content # <<>>

----------------------------------------------------------------------------
(* C16: the summary stored in a tool-call timeline entry is never longer    *)
(* than the display length of 120 characters.                               *)

C16_SummaryTruncated ==
  \A k \in 1..Len(timeline) :
    timeline[k].type = "tool_use" => Len(timeline[k].content) <= DisplayLength

----------------------------------------------------------------------------
(* C17: every tool_result block of a timestamped user record that answers   *)
(* an AskUserQuestion request gives exactly one user_answer entry with its  *)
(* correlation id, with or without the structured answers.                  *)

C17_AnswerMarkerPerResponse ==
  pc = "timelined" =>
    \A r \in 0..(Len(parsedLines) - 1) :
      LET entry == parsedLines[r + 1]
      IN  (Placeable(entry) /\ entry.type = "user") =>
            \A id \in {id \in CorrelationIds : RequestsFor(id) # {}} :
              Len(SelectSeq(EntriesAt(r),
                            LAMBDA e : e.type = "user_answer" /\ e.toolUseId = id))
                = Len(SelectSeq(entry.content.blocks,
                                LAMBDA b : b.type = "tool_result" /\ b.tool_use_id = id))

----------------------------------------------------------------------------
(* C18: every request block of a timestamped assistant record gives exactly *)
(* one ask_user_question entry with its id and its full question list, and  *)
(* never a tool_use entry, whether or not a response exists.                *)

C18_QuestionAskedPerRequest ==
  pc = "timelined" =>
    /\ \A r \in 0..(Len(parsedLines) - 1) :
         LET entry == parsedLines[r + 1]
             asked == SelectSeq(EntriesAt(r), LAMBDA e : e.type = "ask_user_question")
             blocks == IF Placeable(entry) /\ entry.type = "assistant" THEN AskBlocksOf(r) ELSE <<>>
         IN  /\ Len(asked) = Len(blocks)
             /\ \A k \in 1..Len(asked) :
                  k <= Len(blocks) =>
                    /\ asked[k].toolUseId = blocks[k].id
                    /\ asked[k].questions = blocks[k].questions
    /\ \A k \in 1..Len(timeline) :
         timeline[k].type = "tool_use" => timeline[k].toolName # "AskUserQuestion"

C18_Witness ==
  /\ pc = "timelined"
  /\ \E k \in 1..Len(timeline) :
       /\ timeline[k].type = "ask_user_question"
       /\ Len(timeline[k].questions) = 2
       /\ ResponsesFor(timeline[k].toolUseId) = {}

----------------------------------------------------------------------------
(* buildViewModel: totals, the sorted list of the sessions with pairs, and  *)
(* its grouping by project                                                  *)

\* most sessions handed to buildViewModel
MaxSessions == 3

\* new Date(str).getTime(): a time value (in seconds, to stay within the
\* integers of the checker) or NaN for a string that is no date
DateOf(str) ==
  CASE str = "2024-01-01T00:00:00Z" -> [nan |-> FALSE, time |-> 1704067200]
    [] str = "2024-06-01T00:00:00Z" -> [nan |-> FALSE, time |-> 1717200000]
    [] OTHER                        -> [nan |-> TRUE,  time |-> 0]

\* date - date: NaN when either operand is NaN
Minus(x, y) ==
  IF x.nan \/ y.nan THEN [nan |-> TRUE, time |-> 0]
                    ELSE [nan |-> FALSE, time |-> x.time - y.time]

\* the comparator handed to sort
comparefn(a, b) == Minus(DateOf(b.meta.startTime), DateOf(a.meta.startTime))

\* SortCompare of Array.prototype.sort: a NaN result of the comparator counts as +0
SortCompare(a, b) ==
  LET v == comparefn(a, b) IN IF v.nan THEN 0 ELSE v.time

\* the comparator is a consistent comparator for the elements of list
\* (the condition under which the order sort leaves is defined)
Consistent(list) ==
  LET S == {list[k] : k \in 1..Len(list)}
  IN  \A a \in S : \A b \in S : \A c \in S :
        /\ (SortCompare(a, b) = 0 /\ SortCompare(b, c) = 0) => SortCompare(a, c) = 0
        /\ (SortCompare(a, b) < 0 /\ SortCompare(b, c) < 0) => SortCompare(a, c) < 0
        /\ (SortCompare(a, b) > 0 /\ SortCompare(b, c) > 0) => SortCompare(a, c) > 0
        /\ (SortCompare(a, b) = 0) => (SortCompare(a, c) < 0 <=> SortCompare(b, c) < 0)
        /\ (SortCompare(a, b) = 0) => (SortCompare(a, c) > 0 <=> SortCompare(b, c) > 0)

\* x put behind the elements of the sorted list that do not sort after it
InsertSorted(sorted, x) ==
  LET n == Cardinality({k \in 1..Len(sorted) : SortCompare(sorted[k], x) <= 0})
  IN  SubSeq(sorted, 1, n) \o <<x>> \o SubSeq(sorted, n + 1, Len(sorted))

\* the stable sort of list
RECURSIVE StableSort(_)
StableSort(list) ==
  IF list = <<>> THEN <<>>
  ELSE InsertSorted(StableSort(SubSeq(list, 1, Len(list) - 1)), list[Len(list)])

\* the rearrangements of list
Rearrangements(list) ==
  LET n == Len(list)
      bijections == {f \in [1..n -> 1..n] : \A j \in 1..n : \A k \in 1..n : f[j] = f[k] => j = k}
  IN  {[k \in 1..n |-> list[f[k]]] : f \in bijections}

\* what list.sort(comparefn) may leave: the stable sort for a consistent
\* comparator, an implementation-defined order otherwise
Sorted(list) == IF Consistent(list) THEN {StableSort(list)} ELSE Rearrangements(list)

\* allSessions.filter(s => s.qaPairs.length > 0)
WithPairs(sessions) == SelectSeq(sessions, LAMBDA s : Len(s.qaPairs) > 0)

\* the project labels of the listed sessions only
ProjectSet_Listed(sessions) ==
  {WithPairs(sessions)[k].meta.projectName : k \in 1..Len(WithPairs(sessions))}

\* new Set(allSessions.map(s => s.meta.projectName))
ProjectSet(sessions) == {sessions[k].meta.projectName : k \in 1..Len(sessions)}

\* withQA.reduce((sum, s) => sum + s.qaPairs.length, 0)
RECURSIVE SumPairs(_)
SumPairs(sessions) ==
  IF sessions = <<>> THEN 0
  ELSE SumPairs(SubSeq(sessions, 1, Len(sessions) - 1)) + Len(sessions[Len(sessions)].qaPairs)

\* the four totals of the view model
Totals(sessions) ==
  ("totalSessions" :> Len(sessions)) @@
  ("totalProjects" :> Cardinality(ProjectSet(sessions))) @@
  ("qaSessionCount" :> Len(WithPairs(sessions))) @@
  ("totalQA" :> SumPairs(WithPairs(sessions)))

\* grouping keyed by the encoded directory name
GroupOne_ByDirectory(g, session) ==
  LET dir == session.meta.projectDir
      old == IF dir \in DOMAIN g THEN g[dir] ELSE <<>>
  IN  Put(g, dir, Append(old, session))

\* one iteration of the grouping loop
GroupOne(g, session) ==
  LET proj == session.meta.projectName
      old  == IF proj \in DOMAIN g THEN g[proj] ELSE <<>>
  IN  Put(g, proj, Append(old, session))

\* the grouping loop over the sorted list
RECURSIVE GroupFrom(_, _, _)
GroupFrom(g, sessions, k) ==
  IF k > Len(sessions) THEN g
  ELSE GroupFrom(GroupOne(g, sessions[k]), sessions, k + 1)

\* buildViewModel, lines 301-305: the filter and the totals, once main's
\* loop over the files is done
ViewFilter ==
  /\ pc = "collect"
  /\ fileIdx = Len(sessionFiles)
  /\ withQA' = WithPairs(allSessions)
  /\ totals' = Totals(allSessions)
  /\ pc' = "sort"
  /\ UNCHANGED <<parsedLines, i, allSessions, grouped, correlatorVars, parserVars, timelineVars, summaryVars, readerVars, mainVars, renderVars, roundTripVars>>

\* sort in a run that follows an earlier one: the engine's sort is a function
\* of its input, so a list it has sorted before comes out as it did then
SortedAgain(list) ==
  IF firstRun.done /\ WithPairs(firstRun.sessions) = list
  THEN {firstRun.view.sessions}
  ELSE Sorted(list)

\* buildViewModel, line 308: the sort in place
ViewSort ==
  /\ pc = "sort"
  /\ withQA' \in SortedAgain(withQA)
  /\ pc' = "group"
  /\ UNCHANGED <<parsedLines, i, allSessions, grouped, totals, correlatorVars, parserVars, timelineVars, summaryVars, readerVars, mainVars, renderVars, roundTripVars>>

\* buildViewModel, lines 311-316: the grouping
ViewGroup ==
  /\ pc = "group"
  /\ grouped' = GroupFrom(EmptyMap, withQA, 1)
  /\ pc' = "return"
  /\ UNCHANGED <<parsedLines, i, allSessions, withQA, totals, correlatorVars, parserVars, timelineVars, summaryVars, readerVars, mainVars, renderVars, roundTripVars>>

\* buildViewModel, lines 318-325: the view model is totals, grouped and sessions: withQA
ViewReturn ==
  /\ pc = "return"
  /\ pc' = "viewed"
  /\ UNCHANGED <<parsedLines, i, viewVars, correlatorVars, parserVars, timelineVars, summaryVars, readerVars, mainVars, renderVars, roundTripVars>>

\* a pair of a session, as far as buildViewModel reads it
PairP == "p"
PairQ == "q"

\* c.toUpperCase() for one character
UpperCase(c) ==
  CASE c = "a" -> "A" [] c = "b" -> "B" [] c = "d" -> "D" [] c = "s" -> "S"
    [] c = "u" -> "U" [] c = "r" -> "R" [] c = "v" -> "V"
    [] OTHER -> c

\* s.toLowerCase()
ToLowerCase(s) == [k \in 1..Len(s) |-> LowerCase(s[k])]

\* dirName.split('-'): the pieces between the hyphens, empty ones included
RECURSIVE SplitOnHyphen(_)
SplitOnHyphen(s) ==
  LET hyphens == {k \in 1..Len(s) : s[k] = "-"}
  IN  IF hyphens = {} THEN <<s>>
      ELSE LET k == CHOOSE h \in hyphens : \A g \in hyphens : h <= g
           IN  <<SubSeq(s, 1, k - 1)>> \o SplitOnHyphen(SubSeq(s, k + 1, Len(s)))

\* words.join(' ')
RECURSIVE JoinWithSpace(_)
JoinWithSpace(words) ==
  IF words = <<>> THEN <<>>
  ELSE IF Len(words) = 1 THEN words[1]
  ELSE words[1] \o <<" ">> \o JoinWithSpace(Tail(words))

\* w.charAt(0).toUpperCase() + w.slice(1)
Capitalize(w) == IF w = <<>> THEN <<>> ELSE <<UpperCase(w[1])>> \o Tail(w)

\* the label is the directory name itself
extractProjectName_Verbatim(dirName) == dirName

\* extractProjectName: the words after the first 'desktop' segment, capitalized
extractProjectName(dirName) ==
  LET parts      == SelectSeq(SplitOnHyphen(dirName), LAMBDA part : part # <<>>)
      desktops   == {k \in 1..Len(parts) : ToLowerCase(parts[k]) = <<"d", "e", "s", "k", "t", "o", "p">>}
      meaningful == IF desktops # {}
                    THEN SubSeq(parts, (CHOOSE k \in desktops : \A j \in desktops : k <= j) + 1, Len(parts))
                    ELSE parts
  IN  IF meaningful = <<>> THEN dirName
      ELSE JoinWithSpace([k \in 1..Len(meaningful) |-> Capitalize(meaningful[k])])

\* a session as main builds it: { meta, qaPairs, timeline }
Session(sessionId, projectDir, startTime, qaPairs) ==
  [meta |-> [sessionId |-> sessionId, projectDir |-> projectDir,
             projectName |-> extractProjectName(projectDir), startTime |-> startTime],
   qaPairs |-> qaPairs]

\* encoded directory names: two that encode a project 'alpha' and one other
DesktopAlphaDir == <<"-", "D", "e", "s", "k", "t", "o", "p", "-", "a", "l", "p", "h", "a">>
UserDesktopAlphaDir ==
  <<"-", "u", "-", "d", "e", "s", "k", "t", "o", "p", "-", "a", "l", "p", "h", "a">>
SrvBetaDir == <<"-", "s", "r", "v", "-", "b", "e", "t", "a">>

ProjectDirs == {DesktopAlphaDir, UserDesktopAlphaDir, SrvBetaDir}

ProjectNames == {extractProjectName(dir) : dir \in ProjectDirs}

\* start times: none found, two dates, and a timestamp that is no date
StartTimes == {"", "2024-01-01T00:00:00Z", "2024-06-01T00:00:00Z", "soon"}

\* what main puts into a session, but for its id: the first directory with
\* every start time, the second directory of the same project with the two
\* dates, the other project with and without pairs, and sessions with two pairs
SessionShapes ==
  [projectDir : {DesktopAlphaDir}, startTime : StartTimes, qaPairs : {<<PairP>>}]
    \cup [projectDir : {UserDesktopAlphaDir},
          startTime : {"2024-01-01T00:00:00Z", "2024-06-01T00:00:00Z"}, qaPairs : {<<PairP>>}]
    \cup [projectDir : {SrvBetaDir}, startTime : {"", "2024-06-01T00:00:00Z"},
          qaPairs : {<<>>, <<PairP>>}]
    \cup {[projectDir |-> DesktopAlphaDir, startTime |-> "2024-01-01T00:00:00Z", qaPairs |-> <<>>],
          [projectDir |-> DesktopAlphaDir, startTime |-> "2024-01-01T00:00:00Z", qaPairs |-> <<PairP, PairQ>>],
          [projectDir |-> SrvBetaDir, startTime |-> "2024-06-01T00:00:00Z", qaPairs |-> <<PairP, PairQ>>]}

\* main, line 1126: allSessions.push({ meta, qaPairs, timeline }) for the next file
PushSession ==
  /\ pc = "collect"
  /\ Len(allSessions) < MaxSessions
  /\ \E shape \in SessionShapes :
       allSessions' = Append(allSessions,
                             Session(Len(allSessions) + 1, shape.projectDir, shape.startTime, shape.qaPairs))
  /\ UNCHANGED <<parsedLines, i, pc, withQA, grouped, totals, correlatorVars, parserVars, timelineVars, summaryVars, readerVars, mainVars, renderVars, roundTripVars>>

InitView ==
  /\ IdleView
  /\ parsedLines = <<>>
  /\ i = 0
  /\ IdleCorrelator
  /\ IdleParser
  /\ IdleTimeline
  /\ IdleSummary
  /\ IdleRest
  /\ pc = "collect"

NextView == PushSession \/ ViewFilter \/ ViewSort \/ ViewGroup \/ ViewReturn

SpecView == InitView /\ [][NextView]_vars

----------------------------------------------------------------------------
(* C19: sessions without pairs are in neither the session list nor a        *)
(* project group, yet totalSessions counts all sessions handed in and       *)
(* totalProjects all their distinct project labels; qaSessionCount is the   *)
(* length of the session list and totalQA the number of pairs of the        *)
(* listed sessions.                                                         *)

\* the ids of the sessions handed in that have at least one pair
IdsWithPairs ==
  {allSessions[k].meta.sessionId : k \in {k \in 1..Len(allSessions) : allSessions[k].qaPairs # <<>>}}

C19_ZeroPairSessionsCountedNotListed ==
  pc = "viewed" =>
    /\ \A k \in 1..Len(withQA) :
         withQA[k].qaPairs # <<>> /\ \E j \in 1..Len(allSessions) : allSessions[j] = withQA[k]
    /\ {withQA[k].meta.sessionId : k \in 1..Len(withQA)} = IdsWithPairs
    /\ Len(withQA) = Cardinality(IdsWithPairs)
    /\ \A proj \in DOMAIN grouped : \A k \in 1..Len(grouped[proj]) :
         grouped[proj][k].qaPairs # <<>>
    /\ totals["totalSessions"] = Len(allSessions)
    /\ totals["totalProjects"] =
         Cardinality({allSessions[k].meta.projectName : k \in 1..Len(allSessions)})
    /\ totals["qaSessionCount"] = Len(withQA)
    /\ totals["totalQA"] =
         Cardinality({<<k, j>> \in (1..Len(withQA)) \X (1..2) : j <= Len(withQA[k].qaPairs)})

C19_Witness ==
  /\ pc = "viewed"
  /\ withQA # <<>>
  /\ totals["totalProjects"] = 2
  /\ \E k \in 1..Len(allSessions) :
       /\ allSessions[k].qaPairs = <<>>
       /\ \A j \in 1..Len(withQA) : withQA[j].meta.projectName # allSessions[k].meta.projectName

----------------------------------------------------------------------------
(* C20: in the session list, of two sessions whose start times are dates    *)
(* the one with the later start time comes first, also when sessions        *)
(* without a valid start time are in the list.                              *)

Parsable(session) == ~DateOf(session.meta.startTime).nan

C20_NewestFirst ==
  pc = "viewed" =>
    \A j \in 1..Len(withQA) : \A k \in 1..Len(withQA) :
      (j < k /\ Parsable(withQA[j]) /\ Parsable(withQA[k])) =>
        DateOf(withQA[j].meta.startTime).time >= DateOf(withQA[k].meta.startTime).time

----------------------------------------------------------------------------
(* C21: the groups partition the listed sessions by project label: every    *)
(* listed session is in the group of its label and in no other, no group    *)
(* is empty, directory names with one label share a group, and each group   *)
(* keeps the order of the session list.                                     *)

----------------------------------------------------------------------------
(* parseJSONLFile: the lines of a file, the blank ones filtered out, parsed *)
(* one by one                                                               *)

\* what JSON.parse makes of a line: a value, or a SyntaxError
Parsed(value) == [threw |-> FALSE, value |-> value]
SyntaxError == [threw |-> TRUE, value |-> Record("", NoTimestamp, NoContent, NoToolUseResult)]

\* the JSON value null: it has no property at all, and reading one throws
JsonNull == Record("<null>", NoTimestamp, NoContent, NoToolUseResult)

\* a JSON number: reading a property of it gives undefined
JsonNumber == Record("", NoTimestamp, NoContent, NoToolUseResult)

\* a line of the file: its characters (of a long record the first ones only)
\* and what JSON.parse makes of them
Line(text, json) == [text |-> text, json |-> json]

\* JSON.parse(line)
JSONParse(line) == line.json

\* the record of a request and the record of its response
AskRecord == Record("assistant", "t1", ArrayContent(<<AskBlock("X", <<QuestionA>>)>>), NoToolUseResult)
AnswerRecord ==
  Record("user", "t5", ArrayContent(<<ResultBlock("X", FALSE, FallbackText)>>),
         ToolUseResult(StructuredAnswers))

EmptyLine == Line(<<>>, SyntaxError)
SpacesLine == Line(<<" ", "\t", "\r">>, SyntaxError)
TruncatedLine == Line(<<"{", DQ, "t", "y">>, SyntaxError)
NullLine == Line(<<"n", "u", "l", "l">>, Parsed(JsonNull))
NumberLine == Line(<<" ", "7">>, Parsed(JsonNumber))
AskLine == Line(<<"{", DQ, "t", "y", "p", "e", DQ, ":", DQ, "a">>, Parsed(AskRecord))
AnswerLine == Line(<<"{", DQ, "t", "y", "p", "e", DQ, ":", DQ, "u">>, Parsed(AnswerRecord))

FileLines == {EmptyLine, SpacesLine, TruncatedLine, NullLine, NumberLine, AskLine, AnswerLine}

\* the filter that keeps every line
KeepLine_Always(l) == TRUE

\* the filter l => l.trim()
KeepLine(l) == Trim(l.text) # <<>>

\* try { parsed.push(JSON.parse(line)) } catch (e) { }
ParseInto(parsed, line) ==
  IF JSONParse(line).threw THEN parsed ELSE Append(parsed, JSONParse(line).value)

RECURSIVE ParseLines(_, _, _)
ParseLines(parsed, kept, k) ==
  IF k > Len(kept) THEN parsed
  ELSE ParseLines(ParseInto(parsed, kept[k]), kept, k + 1)

\* parseJSONLFile of a file that could be read
parseJSONLFile(content) == ParseLines(<<>>, SelectSeq(content, KeepLine), 1)

\* lines 57-59: split, filter, const parsed = []
ReadFilter ==
  /\ pc = "read"
  /\ keptLines' = SelectSeq(fileLines, KeepLine)
  /\ parsedLines' = <<>>
  /\ i' = 0
  /\ pc' = "parseLines"
  /\ UNCHANGED <<fileLines, correlatorVars, parserVars, timelineVars, summaryVars, viewVars,
                 mainVars, renderVars, roundTripVars>>

\* lines 60-66: one iteration of the loop over lines
ParseLine ==
  /\ pc = "parseLines"
  /\ i < Len(keptLines)
  /\ parsedLines' = ParseInto(parsedLines, keptLines[i + 1])
  /\ i' = i + 1
  /\ UNCHANGED <<readerVars, pc, correlatorVars, parserVars, timelineVars, summaryVars, viewVars,
                 mainVars, renderVars, roundTripVars>>

\* line 67: return parsed
ReadReturn ==
  /\ pc = "parseLines"
  /\ i = Len(keptLines)
  /\ pc' = "readDone"
  /\ UNCHANGED <<parsedLines, i, readerVars, correlatorVars, parserVars, timelineVars, summaryVars,
                 viewVars, mainVars, renderVars, roundTripVars>>

InitRead ==
  /\ fileLines \in UNION {[1..n -> FileLines] : n \in 1..MaxLines}
  /\ keptLines = <<>>
  /\ parsedLines = <<>>
  /\ i = 0
  /\ IdleCorrelator
  /\ IdleParser
  /\ IdleTimeline
  /\ IdleSummary
  /\ IdleView
  /\ IdleMain
  /\ IdleRender
  /\ IdleRoundTrip
  /\ pc = "read"

NextRead == ReadFilter \/ ParseLine \/ ReadReturn

SpecRead == InitRead /\ [][NextRead]_vars

----------------------------------------------------------------------------
(* C23: parseJSONLFile returns the values of exactly the lines that are not *)
(* blank and parse, in the order of the lines; a malformed line is dropped  *)
(* without effect on the others, and no blank line reaches the parser.      *)

\* every character of the line is white space
Blank(l) == \A k \in 1..Len(l.text) : l.text[k] \in {" ", "\t", "\n", "\r"}

\* the lines of the file that are not blank and are JSON, in file order
GoodLines == SelectSeq(fileLines, LAMBDA l : ~Blank(l) /\ ~l.json.threw)

C23_ExactlyTheParsableLines ==
  /\ \A k \in 1..Len(keptLines) : ~Blank(keptLines[k])
  /\ pc = "readDone" =>
       /\ Len(parsedLines) = Len(GoodLines)
       /\ \A k \in 1..Len(parsedLines) : parsedLines[k] = GoodLines[k].json.value
       /\ parsedLines = parseJSONLFile(SelectSeq(fileLines, LAMBDA l : ~l.json.threw))

C23_Witness ==
  /\ pc = "readDone"
  /\ Len(fileLines) = 3
  /\ ~Blank(fileLines[1]) /\ fileLines[1].json.threw
  /\ Blank(fileLines[2])
  /\ parsedLines = <<fileLines[3].json.value>>

----------------------------------------------------------------------------
(* extractSessionMeta *)

\* longest first user message kept
MessageLength == 300

\* s.startsWith(prefix), s.includes(sub)
StartsWith(s, prefix) == OccursAt(s, prefix, 0)
Includes(s, sub) == IndexOf(s, sub) >= 0

CommandPrefix == <<"<", "c", "o", "m", "m", "a", "n", "d", "-">>
SystemPrefix == <<"<", "s", "y", "s", "t", "e", "m", "-">>
ToolResultWord == <<"t", "o", "o", "l", "_", "r", "e", "s", "u", "l", "t">>

\* lines 166-174: the text a user record offers as first user message
Candidate(entry) ==
  IF entry.content.kind = "string" THEN entry.content.text
  ELSE IF entry.content.kind = "array"
  THEN LET texts == SelectSeq(entry.content.blocks, LAMBDA b : b.type = "text")
       IN  IF texts = <<>> THEN <<>> ELSE texts[1].text
  ELSE <<>>

\* line 176: the candidate is taken
Accepted(candidate) ==
  /\ candidate # <<>>
  /\ ~StartsWith(candidate, CommandPrefix)
  /\ ~StartsWith(candidate, SystemPrefix)
  /\ ~Includes(candidate, ToolResultWord)

\* the first accepted candidate of the user records, '' if there is none
FirstUserMessage(lines) ==
  LET hits == {k \in 1..Len(lines) : lines[k].type = "user" /\ Accepted(Candidate(lines[k]))}
  IN  IF hits = {} THEN <<>>
      ELSE Candidate(lines[CHOOSE k \in hits : \A j \in hits : k <= j])

\* the first timestamp of the records, '' if there is none
StartTime(lines) ==
  LET hits == {k \in 1..Len(lines) : lines[k].timestamp # NoTimestamp}
  IN  IF hits = {} THEN NoTimestamp
      ELSE lines[CHOOSE k \in hits : \A j \in hits : k <= j].timestamp

\* extractSessionMeta; the records carry neither slug nor cwd
extractSessionMeta(lines, fileInfo) ==
  [sessionId |-> fileInfo.sessionId,
   projectDir |-> fileInfo.projectDir,
   projectName |-> extractProjectName(fileInfo.projectDir),
   slug |-> fileInfo.sessionId,
   cwd |-> <<>>,
   startTime |-> StartTime(lines),
   firstUserMessage |-> Slice(stripTags(FirstUserMessage(lines)), MessageLength)]

----------------------------------------------------------------------------
(* Records that are no objects: where the stages throw *)

\* a content block that is the JSON value null
NullBlock ==
  [type |-> "<null>", name |-> "", id |-> "", questions |-> <<>>,
   tool_use_id |-> "", is_error |-> FALSE, content |-> NotAString, text |-> <<>>,
   input |-> NoInput]

IsNull(value) == value.type = "<null>"

HasNullBlock(entry) ==
  /\ entry.content.kind = "array"
  /\ \E b \in 1..Len(entry.content.blocks) : IsNull(entry.content.blocks[b])

\* extractSessionMeta, lines 163-166: entry.timestamp, entry.slug, entry.cwd or
\* entry.type of null is a TypeError (with neither slug nor cwd in the records
\* the loop never breaks early and one of them is read)
MetaThrows(lines) == \E k \in 1..Len(lines) : IsNull(lines[k])

\* extractQAPairs, lines 77 and 81 (95 and 101): entry.type of null and
\* block.type of null are TypeErrors
PairsThrow(lines) ==
  \E k \in 1..Len(lines) :
    \/ IsNull(lines[k])
    \/ lines[k].type \in {"assistant", "user"} /\ HasNullBlock(lines[k])

\* buildSessionTimeline, lines 200 and 210 (254): the same on the records with
\* a message and a timestamp
TimelineThrows(lines) ==
  \E k \in 1..Len(lines) :
    \/ IsNull(lines[k])
    \/ /\ lines[k].timestamp # NoTimestamp
       /\ lines[k].type \in {"assistant", "user"}
       /\ HasNullBlock(lines[k])

\* one of the three stages main calls throws
StageThrows(lines) == MetaThrows(lines) \/ PairsThrow(lines) \/ TimelineThrows(lines)

----------------------------------------------------------------------------
(* main: discovery, the loop over the files, the view model, the report *)

\* a discovered file: fileInfo, whether readFileSync can read it, and its lines
SessionFile(sessionId, projectDir, readable, content) ==
  [sessionId |-> sessionId, projectDir |-> projectDir, readable |-> readable, content |-> content]

\* lines of request and response records with a given timestamp
AskLineAt(ts) ==
  Line(<<"{", DQ, "t", "y", "p", "e", DQ, ":", DQ, "a">>,
       Parsed(Record("assistant", ts, ArrayContent(<<AskBlock("X", <<QuestionA>>)>>), NoToolUseResult)))
AnswerLineAt(ts) ==
  Line(<<"{", DQ, "t", "y", "p", "e", DQ, ":", DQ, "u">>,
       Parsed(Record("user", ts, ArrayContent(<<ResultBlock("X", FALSE, FallbackText)>>),
                     ToolUseResult(StructuredAnswers))))
NullBlockLine ==
  Line(<<"{", DQ, "t", "y", "p", "e", DQ, ":", DQ, "a">>,
       Parsed(Record("assistant", "2024-01-01T00:00:00Z",
                     ArrayContent(<<TextBlock(<<"h", "i", "!">>), NullBlock>>), NoToolUseResult)))
HelloLine ==
  Line(<<"{", DQ, "t", "y", "p", "e", DQ, ":", DQ, "u">>,
       Parsed(Record("user", "2024-06-01T00:00:00Z",
                     StringContent(<<"<", "b", ">", "h", "i", "!", " ">>), NoToolUseResult)))

\* the kinds of file: directory, readable or not, lines
FileKinds ==
  { [projectDir |-> DesktopAlphaDir, readable |-> TRUE,
     content |-> <<AskLineAt("2024-01-01T00:00:00Z"), EmptyLine, AnswerLineAt("2024-01-01T00:00:00Z")>>],
    [projectDir |-> UserDesktopAlphaDir, readable |-> TRUE,
     content |-> <<HelloLine, AskLineAt("2024-06-01T00:00:00Z"), AnswerLineAt("2024-06-01T00:00:00Z")>>],
    [projectDir |-> DesktopAlphaDir, readable |-> TRUE,
     content |-> <<AskLineAt(NoTimestamp), AnswerLineAt(NoTimestamp)>>],
    [projectDir |-> SrvBetaDir, readable |-> TRUE,
     content |-> <<AnswerLineAt("2024-06-01T00:00:00Z")>>],
    [projectDir |-> SrvBetaDir, readable |-> TRUE,
     content |-> <<SpacesLine, TruncatedLine>>],
    [projectDir |-> SrvBetaDir, readable |-> FALSE, content |-> <<>>],
    [projectDir |-> DesktopAlphaDir, readable |-> TRUE,
     content |-> <<AskLineAt("2024-01-01T00:00:00Z"), NullLine, AnswerLineAt("2024-01-01T00:00:00Z")>>],
    [projectDir |-> DesktopAlphaDir, readable |-> TRUE,
     content |-> <<NullBlockLine, AskLineAt("2024-01-01T00:00:00Z"), AnswerLineAt("2024-01-01T00:00:00Z")>>] }

\* what discoverSessionFiles may return: the k-th file has sessionId k
FileLists ==
  UNION {{[k \in 1..n |-> SessionFile(k, f[k].projectDir, f[k].readable, f[k].content)]
            : f \in [1..n -> FileKinds]} : n \in 0..MaxSessions}

\* console.error('No session files found...') and console.warn('Skipped <id>: ...')
NoFilesNotice == [kind |-> "noFiles", sessionId |-> 0]
SkipNotice(fileInfo) == [kind |-> "skipped", sessionId |-> fileInfo.sessionId]

\* the files are never found missing
NoFiles_Never(files) == FALSE

\* line 1109: sessionFiles.length === 0
NoFiles(files) == Len(files) = 0

\* the try block of the loop throws: readFileSync, or one of the stages
FileThrows(fileInfo) ==
  \/ ~fileInfo.readable
  \/ StageThrows(parseJSONLFile(fileInfo.content))

\* the session of a file, built from its records alone
SessionOf(fileInfo) ==
  LET parsed == parseJSONLFile(fileInfo.content)
  IN  [meta |-> extractSessionMeta(parsed, fileInfo),
       qaPairs |-> extractQAPairs(parsed),
       timeline |-> buildSessionTimeline(parsed)]

\* a pairs array shared by the files: each session holds the earlier pairs too
PushedSessions_SharedPairs(sessions, fileInfo) ==
  LET before == IF sessions = <<>> THEN <<>> ELSE sessions[Len(sessions)].qaPairs
  IN  Append(sessions, [SessionOf(fileInfo) EXCEPT !.qaPairs = before \o @])

\* line 1126: allSessions.push({ meta, qaPairs, timeline })
PushedSessions(sessions, fileInfo) == Append(sessions, SessionOf(fileInfo))

\* the catch block swallows the error without a word
Caught_Silently(log, fileInfo) == log

\* lines 1127-1130: console.warn(`Skipped ${fileInfo.sessionId}: ...`)
Caught(log, fileInfo) == Append(log, SkipNotice(fileInfo))

\* a file without records is pushed as an empty session
SkipsEmpty_Never(parsed) == FALSE

\* line 1120: if (parsed.length === 0) continue
SkipsEmpty(parsed) == Len(parsed) = 0

\* lines 1105-1115: discovery is done; no files is the end of the run
CheckFiles ==
  /\ pc = "main"
  /\ IF NoFiles(sessionFiles)
     THEN /\ notices' = Append(notices, NoFilesNotice)
          /\ pc' = "exited"
     ELSE /\ notices' = notices
          /\ pc' = "collect"
  /\ UNCHANGED <<parsedLines, i, sessionFiles, fileIdx, report, firstRun, correlatorVars, parserVars,
                 timelineVars, summaryVars, viewVars, readerVars, renderVars, roundTripVars>>

\* lines 1117-1131: one iteration of the loop over sessionFiles
ProcessFile ==
  /\ pc = "collect"
  /\ fileIdx < Len(sessionFiles)
  /\ LET fileInfo == sessionFiles[fileIdx + 1]
     IN  IF FileThrows(fileInfo)
         THEN /\ notices' = Caught(notices, fileInfo)
              /\ allSessions' = allSessions
         ELSE IF SkipsEmpty(parseJSONLFile(fileInfo.content))
         THEN /\ notices' = notices
              /\ allSessions' = allSessions
         ELSE /\ notices' = notices
              /\ allSessions' = PushedSessions(allSessions, fileInfo)
  /\ fileIdx' = fileIdx + 1
  /\ UNCHANGED <<parsedLines, i, pc, sessionFiles, report, firstRun, withQA, grouped, totals,
                 correlatorVars, parserVars, timelineVars, summaryVars, readerVars, renderVars,
                 roundTripVars>>

\* lines 1139-1150: the report is generated from the view model and written
WriteReport ==
  /\ pc = "viewed"
  /\ report' = "written"
  /\ pc' = "done"
  /\ UNCHANGED <<parsedLines, i, sessionFiles, fileIdx, notices, firstRun, correlatorVars, parserVars,
                 timelineVars, summaryVars, viewVars, readerVars, renderVars, roundTripVars>>

\* what buildViewModel returned
ViewModel == [totals |-> totals, grouped |-> grouped, sessions |-> withQA]

\* the program is run once more on the same files
RunAgain ==
  /\ pc = "done"
  /\ ~firstRun.done
  /\ firstRun' = [done |-> TRUE, sessions |-> allSessions, view |-> ViewModel]
  /\ allSessions' = <<>>
  /\ withQA' = <<>>
  /\ grouped' = EmptyMap
  /\ totals' = EmptyMap
  /\ fileIdx' = 0
  /\ notices' = <<>>
  /\ report' = "none"
  /\ pc' = "main"
  /\ UNCHANGED <<parsedLines, i, sessionFiles, correlatorVars, parserVars, timelineVars, summaryVars,
                 readerVars, renderVars, roundTripVars>>

InitMain ==
  /\ sessionFiles \in FileLists
  /\ fileIdx = 0
  /\ notices = <<>>
  /\ report = "none"
  /\ firstRun = NoRun
  /\ parsedLines = <<>>
  /\ i = 0
  /\ IdleCorrelator
  /\ IdleParser
  /\ IdleTimeline
  /\ IdleSummary
  /\ IdleView
  /\ IdleReader
  /\ IdleRender
  /\ IdleRoundTrip
  /\ pc = "main"

NextMain ==
  CheckFiles \/ ProcessFile \/ ViewFilter \/ ViewSort \/ ViewGroup \/ ViewReturn \/ WriteReport \/ RunAgain

SpecMain == InitMain /\ [][NextMain]_vars

----------------------------------------------------------------------------
(* Vocabulary of the properties of main *)

\* the files the loop is done with, in discovery order
Handled == SubSeq(sessionFiles, 1, fileIdx)

\* the sessions and the skip notices of file k
SessionsOfFile(k) == SelectSeq(allSessions, LAMBDA s : s.meta.sessionId = k)
SkipNoticesOfFile(k) ==
  SelectSeq(notices, LAMBDA n : n.kind = "skipped" /\ n.sessionId = k)

\* the records the reader gets from a file that can be read
RecordsOf(fileInfo) == parseJSONLFile(fileInfo.content)

\* the loop over the files is over
LoopDone == pc \in {"sort", "group", "return", "viewed", "done"}

----------------------------------------------------------------------------
(* C22: the aggregate view is a function of the files: every session is     *)
(* what its own file alone gives, and a second run on the same files ends   *)
(* with the same sessions and the same view model as the first.             *)

----------------------------------------------------------------------------
(* C24: a file whose reading or processing fails gives no session and       *)
(* exactly one skip notice naming it; the run goes on, and the sessions are *)
(* those of the other files, as if the failing file were not there.         *)

\* the files handled so far without the failing ones
HandledWithoutFailing == SelectSeq(Handled, LAMBDA f : ~FileThrows(f))

\* the sessions a run over the given files gives when none of them fails
RECURSIVE SessionsOfFiles(_)
SessionsOfFiles(files) ==
  IF files = <<>> THEN <<>>
  ELSE LET rest == SessionsOfFiles(SubSeq(files, 1, Len(files) - 1))
           last == files[Len(files)]
       IN  IF RecordsOf(last) = <<>> THEN rest ELSE Append(rest, SessionOf(last))

C24_IsolateAndContinue ==
  /\ \A k \in 1..fileIdx :
       FileThrows(sessionFiles[k]) =>
         /\ SessionsOfFile(k) = <<>>
         /\ Len(SkipNoticesOfFile(k)) = 1
  /\ allSessions = SessionsOfFiles(HandledWithoutFailing)
  /\ pc = "exited" => sessionFiles = <<>>
  /\ LoopDone => fileIdx = Len(sessionFiles)

C24_Witness ==
  /\ pc = "done"
  /\ Len(sessionFiles) = 3
  /\ ~FileThrows(sessionFiles[1]) /\ FileThrows(sessionFiles[2]) /\ ~FileThrows(sessionFiles[3])
  /\ ~sessionFiles[2].readable
  /\ Len(allSessions) = 2

----------------------------------------------------------------------------
(* C25: no stage throws on a record that is not as expected: every file     *)
(* that can be read and has at least one parsed record gives a session.     *)

C25_StagesNeverThrow ==
  \A k \in 1..fileIdx :
    (sessionFiles[k].readable /\ RecordsOf(sessionFiles[k]) # <<>>) =>
      /\ Len(SessionsOfFile(k)) = 1
      /\ SkipNoticesOfFile(k) = <<>>

----------------------------------------------------------------------------
(* C26: with no file discovered main reports 'no session files found' and   *)
(* ends at once: nothing parsed, no view model, no report, no skip notice;  *)
(* with at least one file discovered this end is never reached.             *)

C26_EmptyInputIsTerminal ==
  /\ (sessionFiles = <<>> /\ pc # "main") =>
       /\ pc = "exited"
       /\ notices = <<NoFilesNotice>>
       /\ fileIdx = 0 /\ allSessions = <<>>
       /\ withQA = <<>> /\ grouped = EmptyMap /\ totals = EmptyMap
       /\ report = "none"
  /\ sessionFiles # <<>> =>
       /\ pc # "exited"
       /\ \A n \in 1..Len(notices) : notices[n] # NoFilesNotice

C26_Witness ==
  /\ pc = "exited"
  /\ sessionFiles = <<>>
  /\ notices = <<NoFilesNotice>>

----------------------------------------------------------------------------
(* C30: a file with no parsed record gives no session and no skip notice    *)
(* and counts in no total; a file with a parsed record gives exactly one    *)
(* session unless a stage fails.                                            *)

\* the files that can be read and hold at least one record no stage fails on
Sound(fileInfo) ==
  fileInfo.readable /\ RecordsOf(fileInfo) # <<>> /\ ~StageThrows(RecordsOf(fileInfo))

\* a file that can be read and holds no record
Recordless(fileInfo) == fileInfo.readable /\ RecordsOf(fileInfo) = <<>>

C30_RecordlessFileIsNoSession ==
  /\ \A k \in 1..fileIdx :
       /\ Recordless(sessionFiles[k]) => (SessionsOfFile(k) = <<>> /\ SkipNoticesOfFile(k) = <<>>)
       /\ Sound(sessionFiles[k]) => Len(SessionsOfFile(k)) = 1
  /\ pc \in {"viewed", "done"} =>
       /\ totals["totalSessions"] = Cardinality({k \in 1..Len(sessionFiles) : Sound(sessionFiles[k])})
       /\ totals["totalProjects"] =
            Cardinality({extractProjectName(sessionFiles[k].projectDir) :
                           k \in {j \in 1..Len(sessionFiles) : Sound(sessionFiles[j])}})

C30_Witness ==
  /\ pc = "done"
  /\ allSessions # <<>>
  /\ \E k \in 1..Len(sessionFiles) :
       /\ Recordless(sessionFiles[k])
       /\ sessionFiles[k].content # <<>>
       /\ \A j \in 1..Len(allSessions) :
            allSessions[j].meta.projectName # extractProjectName(sessionFiles[k].projectDir)

----------------------------------------------------------------------------
(* The fallback text written from a mapping and parsed back *)

\* most questions of a mapping that is written and parsed back
MaxAnswers == 2

\* question and answer texts without a quotation mark
QuestionTexts == {<<"a">>, <<"b">>, <<"=">>}
AnswerTexts == {<<>>, <<"y">>, <<"n", "o">>, <<"=">>}

\* `"<question>"="<answer>"`
WriteAnswer(qText, aText) == <<DQ>> \o qText \o <<DQ, "=", DQ>> \o aText \o <<DQ>>

\* the answers of the questions in the fixed shape, joined by `, `
RECURSIVE WriteAnswers(_, _)
WriteAnswers(qs, m) ==
  IF qs = <<>> THEN <<>>
  ELSE IF Len(qs) = 1 THEN WriteAnswer(qs[1].question, m[qs[1].question])
  ELSE WriteAnswer(qs[1].question, m[qs[1].question]) \o <<",", " ">> \o WriteAnswers(Tail(qs), m)

\* question lists without repetition
QuestionLists ==
  UNION {{qs \in [1..n -> {Question(t) : t \in QuestionTexts}] :
            \A j \in 1..n : \A k \in 1..n : qs[j] = qs[k] => j = k} : n \in 1..MaxAnswers}

\* the response block's content is the mapping in the fixed shape
WriteText ==
  /\ pc = "write"
  /\ contentStr' = Str(WriteAnswers(questions, mapping))
  /\ pc' = "parse"
  /\ UNCHANGED <<parsedLines, toolUseMap, pairs, i, questions, qi, answers, timelineVars, summaryVars,
                 viewVars, readerVars, mainVars, renderVars, roundTripVars>>

InitRoundTrip ==
  /\ questions \in QuestionLists
  /\ mapping \in [{questions[k].question : k \in 1..Len(questions)} -> AnswerTexts]
  /\ contentStr = NotAString
  /\ qi = 0
  /\ answers = EmptyMap
  /\ parsedLines = <<>>
  /\ i = 0
  /\ IdleCorrelator
  /\ IdleTimeline
  /\ IdleSummary
  /\ IdleView
  /\ IdleReader
  /\ IdleMain
  /\ IdleRender
  /\ pc = "write"

NextRoundTrip == WriteText \/ ParseStep \/ ParseReturn

SpecRoundTrip == InitRoundTrip /\ [][NextRoundTrip]_vars

----------------------------------------------------------------------------
(* C28: a mapping without quotation marks, written in the fixed shape and   *)
(* parsed against its question list, comes back unchanged; no answer holds  *)
(* its closing quotation mark.                                              *)

C28_RoundTrip ==
  pc = "parsed" =>
    /\ answers = mapping
    /\ \A q \in DOMAIN answers : \A k \in 1..Len(answers[q]) : answers[q][k] # DQ

\* the same for mappings whose last answer is not empty and in which "=" is
\* neither a question nor an answer
C28_RoundTripOfPlainAnswers ==
  (/\ pc = "parsed"
   /\ mapping[questions[Len(questions)].question] # <<>>
   /\ \A k \in 1..Len(questions) :
        questions[k].question # <<"=">> /\ mapping[questions[k].question] # <<"=">>)
    => answers = mapping

----------------------------------------------------------------------------
(* The client's session detail: renderSessionDetail, renderTimeline and     *)
(* setFilter, on the pairs and the timeline of one session                  *)

\* qaByToolUseId: the pairs by toolUseId, a later pair replacing an earlier one
QaByToolUseId(ps) ==
  [id \in {ps[k].toolUseId : k \in 1..Len(ps)} |->
     ps[CHOOSE k \in 1..Len(ps) :
          /\ ps[k].toolUseId = id
          /\ \A j \in 1..Len(ps) : ps[j].toolUseId = id => j <= k]]

\* what renderTimeline adds to the page: a Q/A card or a timeline entry
Card(pair, entry) ==
  [kind |-> "card", type |-> entry.type, toolUseId |-> pair.toolUseId,
   timestamp |-> entry.timestamp, lineIndex |-> entry.lineIndex]
EntryItem(entry) ==
  [kind |-> "entry", type |-> entry.type, toolUseId |-> entry.toolUseId,
   timestamp |-> entry.timestamp, lineIndex |-> entry.lineIndex]

\* renderTimelineEntry returns markup for these types and '' for any other
Renderable(entry) == entry.type \in {"user_text", "assistant_text", "tool_use"}

\* a loop body that renders a card for every question-asked entry with a pair
RenderOne_EveryRequest(items, rendered, entry, qa, filter) ==
  IF entry.type = "ask_user_question"
  THEN IF entry.toolUseId \in DOMAIN qa
       THEN Append(items, Card(qa[entry.toolUseId], entry))
       ELSE items
  ELSE IF entry.type = "user_answer" THEN items
  ELSE IF filter = "qa" THEN items
  ELSE IF Renderable(entry) THEN Append(items, EntryItem(entry))
  ELSE items

\* lines 845-866: the body of the loop of renderTimeline
RenderOne(items, rendered, entry, qa, filter) ==
  IF entry.type = "ask_user_question"
  THEN IF entry.toolUseId \in DOMAIN qa /\ entry.toolUseId \notin rendered
       THEN Append(items, Card(qa[entry.toolUseId], entry))
       ELSE items
  ELSE IF entry.type = "user_answer" THEN items
  ELSE IF filter = "qa" THEN items
  ELSE IF Renderable(entry) THEN Append(items, EntryItem(entry))
  ELSE items

\* lines 849-850: renderedQAIds.add(entry.toolUseId)
RenderedAfter(rendered, entry, qa) ==
  IF entry.type = "ask_user_question" /\ entry.toolUseId \in DOMAIN qa
  THEN rendered \cup {entry.toolUseId}
  ELSE rendered

\* showSessionDetail and renderSessionDetail: the session's pairs and timeline
\* as main built them, the filter reset, rendering about to start
OpenSession ==
  /\ pc = "open"
  /\ pairs' = extractQAPairs(parsedLines)
  /\ timeline' = buildSessionTimeline(parsedLines)
  /\ currentFilter' = "all"
  /\ html' = <<>>
  /\ renderedQAIds' = {}
  /\ i' = 0
  /\ pc' = "render"
  /\ UNCHANGED <<parsedLines, toolUseMap, parserVars, summaryVars, viewVars, readerVars, mainVars,
                 roundTripVars>>

\* renderTimeline: one iteration of the loop over the timeline
RenderStep ==
  /\ pc = "render"
  /\ i < Len(timeline)
  /\ html' = RenderOne(html, renderedQAIds, timeline[i + 1], QaByToolUseId(pairs), currentFilter)
  /\ renderedQAIds' = RenderedAfter(renderedQAIds, timeline[i + 1], QaByToolUseId(pairs))
  /\ i' = i + 1
  /\ UNCHANGED <<parsedLines, pc, currentFilter, correlatorVars, parserVars, timelineVars,
                 summaryVars, viewVars, readerVars, mainVars, roundTripVars>>

\* renderTimeline: return html
RenderReturn ==
  /\ pc = "render"
  /\ i = Len(timeline)
  /\ pc' = "shown"
  /\ UNCHANGED <<parsedLines, i, renderVars, correlatorVars, parserVars, timelineVars, summaryVars,
                 viewVars, readerVars, mainVars, roundTripVars>>

\* setFilter(mode): the filter is set and the timeline rendered anew
SetFilter ==
  /\ pc = "shown"
  /\ \E mode \in {"all", "qa"} : currentFilter' = mode
  /\ html' = <<>>
  /\ renderedQAIds' = {}
  /\ i' = 0
  /\ pc' = "render"
  /\ UNCHANGED <<parsedLines, correlatorVars, parserVars, timelineVars, summaryVars, viewVars,
                 readerVars, mainVars, roundTripVars>>

\* records of the sessions shown: requests, responses, and other turns
RenderRecords ==
  { Record("assistant", "t1", ArrayContent(<<AskBlock("X", <<QuestionA>>)>>), NoToolUseResult),
    Record("assistant", NoTimestamp, ArrayContent(<<AskBlock("X", <<QuestionA>>)>>), NoToolUseResult),
    Record("assistant", "t2", ArrayContent(<<AskBlock("Y", <<QuestionA, QuestionB>>)>>), NoToolUseResult),
    Record("assistant", "t1", ArrayContent(<<TextBlock(<<"h", "i", "!">>),
                                             ToolUseBlock("Bash", "B")>>), NoToolUseResult),
    Record("user", "t5", ArrayContent(<<ResultBlock("X", FALSE, FallbackText)>>),
           ToolUseResult(StructuredAnswers)),
    Record("user", "t4", ArrayContent(<<ResultBlock("X", FALSE, FallbackText)>>), NoToolUseResult),
    Record("user", "t6", ArrayContent(<<ResultBlock("Y", FALSE, FallbackText),
                                        ResultBlock("X", FALSE, FallbackText)>>), ToolUseResultOther),
    Record("user", "t6", ArrayContent(<<ResultBlock("B", FALSE, Str(<<"o", "k">>))>>), ToolUseResultOther),
    Record("user", "t4", StringContent(<<"g", "o", "!">>), NoToolUseResult) }

\* the record sequences of sessions with at least one pair: only these are
\* embedded in the page
RenderSequences ==
  {r \in UNION {[1..n -> RenderRecords] : n \in 1..MaxLines} : extractQAPairs(r) # <<>>}

InitRender ==
  /\ parsedLines \in RenderSequences
  /\ i = 0
  /\ IdleCorrelator
  /\ IdleParser
  /\ IdleTimeline
  /\ IdleSummary
  /\ IdleView
  /\ IdleReader
  /\ IdleMain
  /\ IdleRender
  /\ IdleRoundTrip
  /\ pc = "open"

NextRender == OpenSession \/ RenderStep \/ RenderReturn \/ SetFilter

SpecRender == InitRender /\ [][NextRender]_vars

----------------------------------------------------------------------------
(* C27: renderTimeline renders at most one Q/A card per correlation id and  *)
(* never an answer-given entry as an item of its own, in both filter modes; *)
(* in 'Q&A Only' mode it renders nothing but Q/A cards.                     *)

CardsOf(id) == SelectSeq(html, LAMBDA item : item.kind = "card" /\ item.toolUseId = id)

C27_OneCardPerIdNoAnswerItem ==
  /\ \A k \in 1..Len(html) : Len(CardsOf(html[k].toolUseId)) <= 1 \/ html[k].kind # "card"
  /\ \A k \in 1..Len(html) : html[k].type # "user_answer"
  /\ currentFilter = "qa" => \A k \in 1..Len(html) : html[k].kind = "card"

C27_Witness ==
  /\ pc = "shown"
  /\ currentFilter = "qa"
  /\ html # <<>>
  /\ \E j \in 1..Len(timeline) : \E k \in 1..Len(timeline) :
       /\ j < k
       /\ timeline[j].type = "ask_user_question" /\ timeline[k].type = "ask_user_question"
       /\ timeline[j].toolUseId = timeline[k].toolUseId
  /\ \E k \in 1..Len(timeline) : timeline[k].type = "user_answer"

----------------------------------------------------------------------------
(* C29: every pair of a session is shown: the number of Q/A cards rendered  *)
(* is the session's pair count, every pair has a question-asked entry with  *)
(* its id in the timeline, and distinct pairs have distinct ids.            *)

Cards == SelectSeq(html, LAMBDA item : item.kind = "card")

C29_EveryPairShown ==
  pc = "shown" =>
    /\ Len(Cards) = Len(pairs)
    /\ \A k \in 1..Len(pairs) :
         \E e \in 1..Len(timeline) :
           timeline[e].type = "ask_user_question" /\ timeline[e].toolUseId = pairs[k].toolUseId
    /\ \A j \in 1..Len(pairs) : \A k \in 1..Len(pairs) :
         j # k => pairs[j].toolUseId # pairs[k].toolUseId

====
